---- MODULE Spec2Model ----
(***************************************************************************)
(* State-machine model of the gstzrtp filter (gstzrtpfilter.c) and of its  *)
(* SRTP/SRTCP C wrapper (gstSrtpCWrapper.cpp).                             *)
(*                                                                         *)
(* Buffers are flat arrays of cells, addressed by 0-based byte offsets as  *)
(* in the C code.  A cell is a tuple of integers: a data byte b is <<b>>,  *)
(* and a byte of an authentication tag is <<i>> \o digest, the i-th byte   *)
(* of a collision-free message digest kept as a term.                      *)
(***************************************************************************)
EXTENDS Integers, Sequences, FiniteSets, TLC

VARIABLES
    \* -- a sender and a receiver crypto context joined by a wire (SpecSrtp)
    stream,     \* what is fixed for the stream: protocol, SSRC, first sequence number
    nSent,      \* packets the sender has protected
    sentIdx,    \* per protected packet, the sender's ROC (SRTP) or index (SRTCP)
    wire,       \* the protected packet in flight: <<pkt>>, or <<>>
    sndCtx,     \* the sender's ZsrtpContext / ZsrtpContextCtrl
    rcvCtx,     \* the receiver's ZsrtpContext / ZsrtpContextCtrl
    obs,        \* the last wrapper call: arguments, results, contexts before and after
    \* -- the filter element between the RTP session and the network (Spec)
    zrtp,       \* the GstZrtpFilter instance
    role,       \* the role the ZRTP handshake gives this end
    last,       \* the last handler run: input, state before, what it did, result
    \* -- a streaming thread and the threads that run the ZRTP engine (SpecConc)
    heap,       \* the crypto context wrappers ever allocated: unused, live, destroyed
    ctxPtr,     \* the filter's four context pointers; 0 is NULL
    zrtpMutex,  \* the thread that holds the filter's mutex, or ""
    streamer,   \* where the streaming thread is in its chain function
    engine      \* per engine thread, where it is in its callback

srtpVars == <<stream, nSent, sentIdx, wire, sndCtx, rcvCtx, obs>>

filterVars == <<zrtp, role, last>>

concVars == <<heap, ctxPtr, zrtpMutex, streamer, engine>>

vars == <<srtpVars, filterVars, concVars>>

\* ------------------------------------------------------------------ bytes

B(x) == <<x>>

IsByte(c) == Len(c) = 1

Val(c) == IF IsByte(c) THEN c[1] ELSE 0

RECURSIVE Xor(_, _)
Xor(a, b) ==
    IF a = 0 THEN b
    ELSE IF b = 0 THEN a
    ELSE ((a + b) % 2) + 2 * Xor(a \div 2, b \div 2)

\* the cell at 0-based offset off; memory outside the buffer reads as Wild
Wild == <<0, 0>>

Mem(buf, off) == IF off >= 0 /\ off < Len(buf) THEN buf[off + 1] ELSE Wild

\* buf[off .. off+len-1], 0-based as in C
Sub(buf, off, len) == [i \in 1..len |-> Mem(buf, off + i - 1)]

ByteAt(buf, off) == Val(Mem(buf, off))

ReadU16(buf, off) == ByteAt(buf, off) * 256 + ByteAt(buf, off + 1)

U16(v) == <<B(v \div 256), B(v % 256)>>

\* A 32-bit word is kept as the integer of the same bit pattern in two's
\* complement (-2^31 .. 2^31-1): words are equal exactly when their bytes
\* are, and bit 31 is set exactly when the integer is negative.
ReadU32(buf, off) ==
    LET b0 == ByteAt(buf, off)
        hi == IF b0 >= 128 THEN b0 - 256 ELSE b0
    IN  hi * 16777216 + ByteAt(buf, off + 1) * 65536 + ReadU16(buf, off + 2)

\* w & ~0x80000000 and w | 0x80000000
ClearBit31(w) == IF w < 0 THEN (w + 2147483647) + 1 ELSE w

SetBit31(w) == IF w >= 0 THEN (w - 2147483647) - 1 ELSE w

\* an increment that leaves the word as it is
Inc32_Stuck(w) == w

\* w + 1 on 32 bits
Inc32(w) == IF w = 2147483647 THEN (0 - 2147483647) - 1 ELSE w + 1

U32(w) ==
    LET low == ClearBit31(w)
        b0  == (low \div 16777216) + (IF w < 0 THEN 128 ELSE 0)
    IN  <<B(b0), B((low \div 65536) % 256)>> \o U16(low % 65536)

\* cell sequence -> integer sequence, each cell prefixed by its length
RECURSIVE Flatten(_)
Flatten(s) ==
    IF s = <<>> THEN <<>>
    ELSE <<Len(Head(s))>> \o Head(s) \o Flatten(Tail(s))

\* ------------------------------------------------------ GStreamer RTP API

GST_RTP_HEADER_LEN == 12

gst_rtp_buffer_get_header_len(buf) ==
    LET cc  == ByteAt(buf, 0) % 16
        x   == (ByteAt(buf, 0) \div 16) % 2
        len == GST_RTP_HEADER_LEN + 4 * cc
    IN  IF x = 1 THEN len + ReadU16(buf, len + 2) * 4 + 4 ELSE len

gst_rtp_buffer_get_seq(buf) == ReadU16(buf, 2)

gst_rtp_buffer_get_ssrc(buf) == ReadU32(buf, 8)

\* ------------------------------------------ CryptoContext (SRTP library)
\* The SRTP crypto context of the ZRTP library (CryptoContext.cpp), which the
\* wrapper drives.  Its replay window is the set of distances d behind the
\* highest accepted index whose packet has been accepted.

REPLAY_WINDOW_SIZE == 64

SeqMod == 65536

\* the rollover counter is a uint32_t; the model keeps its low 15 bits, so
\* that the packet index ROC * 2^16 + SEQ stays within TLC's integers
RocMod == SeqMod \div 2

CryptoContext(ssrc, roc, masterKey, masterSalt, tagLength) ==
    [label |-> 1, ssrc |-> ssrc, roc |-> roc,
     key |-> masterKey, salt |-> masterSalt,
     tagLength |-> tagLength, mkiLength |-> 0,
     seqNumSet |-> FALSE, s_l |-> 0, replay_window |-> {}]

\* the highest sequence number the guess starts from: the packet's own one
\* until a first packet has been accepted
LastSeq(cc, new_seq_nb) == IF cc.seqNumSet THEN cc.s_l ELSE new_seq_nb

guessRoc(cc, new_seq_nb) ==
    LET s_l == LastSeq(cc, new_seq_nb)
    IN  IF s_l < 32768
        THEN IF new_seq_nb - s_l > 32768 THEN (cc.roc - 1) % RocMod ELSE cc.roc
        ELSE IF s_l - 32768 > new_seq_nb THEN (cc.roc + 1) % RocMod ELSE cc.roc

guessIndex(cc, new_seq_nb) == guessRoc(cc, new_seq_nb) * SeqMod + new_seq_nb

LocalIndex(cc, new_seq_nb) == cc.roc * SeqMod + LastSeq(cc, new_seq_nb)

checkReplay(cc, new_seq_nb) ==
    LET delta == guessIndex(cc, new_seq_nb) - LocalIndex(cc, new_seq_nb)
    IN  IF delta > 0 THEN TRUE
        ELSE IF -delta >= REPLAY_WINDOW_SIZE THEN FALSE
        ELSE (-delta) \notin cc.replay_window

update(cc, new_seq_nb) ==
    LET g     == guessRoc(cc, new_seq_nb)
        delta == guessIndex(cc, new_seq_nb) - LocalIndex(cc, new_seq_nb)
    IN  IF delta > 0 \/ ~cc.seqNumSet
        THEN [cc EXCEPT !.replay_window =
                            {d + delta : d \in {e \in cc.replay_window :
                                                e + delta < REPLAY_WINDOW_SIZE}}
                            \cup {0},
                        !.roc = g, !.s_l = new_seq_nb, !.seqNumSet = TRUE]
        ELSE [cc EXCEPT !.replay_window = cc.replay_window \cup {-delta}]

\* AES/Twofish counter mode: the keystream byte at position pos (a stand-in
\* function of session key, SSRC and packet index), XORed onto the data
KeyStream(cc, index, ssrc, pos) ==
    (59 * cc.label + 31 * cc.key + 37 * cc.salt + 17 * (ssrc % 256)
       + 101 * ((index \div SeqMod) % 256) + 7 * (index % SeqMod)
       + 13 * pos + 1) % 256

XorCell(c, k) == IF IsByte(c) THEN B(Xor(c[1], k)) ELSE <<k>> \o c

\* XOR data[off .. off+len-1] with the keystream; the rest is untouched
CryptRange(cc, data, off, len, index, ssrc) ==
    [i \in 1..Len(data) |->
        IF i - 1 >= off /\ i - 1 < off + len
        THEN XorCell(data[i], KeyStream(cc, index, ssrc, i - 1 - off))
        ELSE data[i]]

srtpEncrypt(cc, data, off, len, index, ssrc) ==
    CryptRange(cc, data, off, len, index, ssrc)

\* HMAC over pkt[0 .. pktlen-1] and the ROC, truncated to the tag length
Digest(cc, pkt, pktlen, roc) ==
    <<cc.label, cc.key, cc.salt, roc>> \o Flatten(Sub(pkt, 0, pktlen))

srtpAuthenticate(cc, pkt, pktlen, roc) ==
    [i \in 1..cc.tagLength |-> <<i>> \o Digest(cc, pkt, pktlen, roc)]

\* ------------------------------------------------- gstSrtpCWrapper: SRTP
\* A ZsrtpContext holds the pointer srtp to its CryptoContext: <<cc>>, or <<>>
\* for NULL.  The wrapper functions return the result code rc, the context
\* and the buffer as they are left, and the library calls made, in order.

ZsrtpContext(cc) == [srtp |-> <<cc>>]

zsrtp_CreateWrapper(ssrc, roc, masterKey, masterSalt, tagLength) ==
    ZsrtpContext(CryptoContext(ssrc, roc, masterKey, masterSalt, tagLength))

\* a g_realloc that leaves the buffer at its old size
Realloc_SameSize(buf, newLength) == buf

\* g_realloc of the buffer to newLength bytes: the added bytes are not set
Realloc(buf, newLength) ==
    [i \in 1..newLength |-> IF i <= Len(buf) THEN buf[i] ELSE Wild]

\* memcpy of src to data + off
Store(data, off, src) ==
    [i \in 1..Len(data) |->
        IF i - 1 >= off /\ i - 1 < off + Len(src) THEN src[i - off] ELSE data[i]]

\* zsrtp_protect computing the tag over the packet before it is encrypted
zsrtp_protect_MacFirst(ctx, gstBuf) ==
    IF ctx.srtp = <<>> THEN [rc |-> 0, ctx |-> ctx, buf |-> gstBuf, calls |-> <<>>]
    ELSE
    LET pcc        == ctx.srtp[1]
        length     == Len(gstBuf)
        hdrlen     == gst_rtp_buffer_get_header_len(gstBuf)
        index      == pcc.roc * SeqMod + gst_rtp_buffer_get_seq(gstBuf)
        data       == Realloc(gstBuf, length + pcc.tagLength)
        mac        == srtpAuthenticate(pcc, data, length, pcc.roc)
        enc        == srtpEncrypt(pcc, data, hdrlen, length - hdrlen, index,
                                  gst_rtp_buffer_get_ssrc(gstBuf))
        pcc2       == IF gst_rtp_buffer_get_seq(gstBuf) = 65535
                      THEN [pcc EXCEPT !.roc = (pcc.roc + 1) % RocMod]
                      ELSE pcc
    IN  [rc |-> 1, ctx |-> [ctx EXCEPT !.srtp = <<pcc2>>],
         buf |-> Store(enc, length, mac),
         calls |-> <<"srtpAuthenticate", "srtpEncrypt">>]

zsrtp_protect(ctx, gstBuf) ==
    IF ctx.srtp = <<>> THEN [rc |-> 0, ctx |-> ctx, buf |-> gstBuf, calls |-> <<>>]
    ELSE
    LET pcc        == ctx.srtp[1]
        length     == Len(gstBuf)
        hdrlen     == gst_rtp_buffer_get_header_len(gstBuf)
        payloadlen == length - hdrlen
        seqnum     == gst_rtp_buffer_get_seq(gstBuf)
        index      == pcc.roc * SeqMod + seqnum
        ssrc       == gst_rtp_buffer_get_ssrc(gstBuf)
        newLength  == length + pcc.tagLength
        data       == Realloc(gstBuf, newLength)
        enc        == srtpEncrypt(pcc, data, hdrlen, payloadlen, index, ssrc)
        mac        == srtpAuthenticate(pcc, enc, length, pcc.roc)
        out        == Store(enc, length, mac)
        pcc2       == IF seqnum = 65535
                      THEN [pcc EXCEPT !.roc = (pcc.roc + 1) % RocMod]
                      ELSE pcc
    IN  [rc |-> 1, ctx |-> [ctx EXCEPT !.srtp = <<pcc2>>], buf |-> out,
         calls |-> <<"srtpEncrypt", "srtpAuthenticate">>]

\* zsrtp_unprotect decrypting and updating before it compares the tag
zsrtp_unprotect_DecryptFirst(ctx, gstBuf) ==
    IF ctx.srtp = <<>> THEN [rc |-> 0, ctx |-> ctx, buf |-> gstBuf, calls |-> <<>>]
    ELSE
    LET pcc           == ctx.srtp[1]
        length0       == Len(gstBuf)
        hdrlen        == gst_rtp_buffer_get_header_len(gstBuf)
        srtpDataIndex == length0 - (pcc.tagLength + pcc.mkiLength)
        payloadlen    == (length0 - hdrlen) - (pcc.tagLength + pcc.mkiLength)
        tag           == Sub(gstBuf, srtpDataIndex + pcc.mkiLength, pcc.tagLength)
        seqnum        == gst_rtp_buffer_get_seq(gstBuf)
    IN  IF ~checkReplay(pcc, seqnum)
        THEN [rc |-> -2, ctx |-> ctx, buf |-> gstBuf, calls |-> <<"checkReplay">>]
        ELSE
        LET guessedIndex == guessIndex(pcc, seqnum)
            guessedRoc   == guessedIndex \div SeqMod
            mac          == srtpAuthenticate(pcc, gstBuf, srtpDataIndex, guessedRoc)
            dec          == srtpEncrypt(pcc, gstBuf, hdrlen, payloadlen, guessedIndex,
                                        gst_rtp_buffer_get_ssrc(gstBuf))
            upd          == [ctx EXCEPT !.srtp = <<update(pcc, seqnum)>>]
            log          == <<"checkReplay", "guessIndex", "srtpEncrypt", "update",
                              "srtpAuthenticate">>
        IN  IF tag # mac
            THEN [rc |-> -1, ctx |-> upd, buf |-> dec, calls |-> log]
            ELSE [rc |-> 1, ctx |-> upd, buf |-> Sub(dec, 0, srtpDataIndex),
                  calls |-> log]

\* zsrtp_unprotect without the replay check
zsrtp_unprotect_NoReplay(ctx, gstBuf) ==
    IF ctx.srtp = <<>> THEN [rc |-> 0, ctx |-> ctx, buf |-> gstBuf, calls |-> <<>>]
    ELSE
    LET pcc           == ctx.srtp[1]
        length0       == Len(gstBuf)
        hdrlen        == gst_rtp_buffer_get_header_len(gstBuf)
        srtpDataIndex == length0 - (pcc.tagLength + pcc.mkiLength)
        payloadlen    == (length0 - hdrlen) - (pcc.tagLength + pcc.mkiLength)
        tag           == Sub(gstBuf, srtpDataIndex + pcc.mkiLength, pcc.tagLength)
        seqnum        == gst_rtp_buffer_get_seq(gstBuf)
        guessedIndex  == guessIndex(pcc, seqnum)
        guessedRoc    == guessedIndex \div SeqMod
        mac           == srtpAuthenticate(pcc, gstBuf, srtpDataIndex, guessedRoc)
    IN  IF tag # mac
        THEN [rc |-> -1, ctx |-> ctx, buf |-> gstBuf,
              calls |-> <<"guessIndex", "srtpAuthenticate">>]
        ELSE [rc |-> 1,
              ctx |-> [ctx EXCEPT !.srtp = <<update(pcc, seqnum)>>],
              buf |-> Sub(srtpEncrypt(pcc, gstBuf, hdrlen, payloadlen, guessedIndex,
                                      gst_rtp_buffer_get_ssrc(gstBuf)),
                          0, srtpDataIndex),
              calls |-> <<"guessIndex", "srtpAuthenticate", "srtpEncrypt", "update">>]

\* zsrtp_unprotect without the comparison of the tag
zsrtp_unprotect_NoAuth(ctx, gstBuf) ==
    IF ctx.srtp = <<>> THEN [rc |-> 0, ctx |-> ctx, buf |-> gstBuf, calls |-> <<>>]
    ELSE
    LET pcc           == ctx.srtp[1]
        length0       == Len(gstBuf)
        hdrlen        == gst_rtp_buffer_get_header_len(gstBuf)
        srtpDataIndex == length0 - (pcc.tagLength + pcc.mkiLength)
        payloadlen    == (length0 - hdrlen) - (pcc.tagLength + pcc.mkiLength)
        seqnum        == gst_rtp_buffer_get_seq(gstBuf)
    IN  IF ~checkReplay(pcc, seqnum)
        THEN [rc |-> -2, ctx |-> ctx, buf |-> gstBuf, calls |-> <<"checkReplay">>]
        ELSE [rc |-> 1,
              ctx |-> [ctx EXCEPT !.srtp = <<update(pcc, seqnum)>>],
              buf |-> Sub(srtpEncrypt(pcc, gstBuf, hdrlen, payloadlen,
                                      guessIndex(pcc, seqnum),
                                      gst_rtp_buffer_get_ssrc(gstBuf)),
                          0, srtpDataIndex),
              calls |-> <<"checkReplay", "guessIndex", "srtpEncrypt", "update">>]

zsrtp_unprotect(ctx, gstBuf) ==
    IF ctx.srtp = <<>> THEN [rc |-> 0, ctx |-> ctx, buf |-> gstBuf, calls |-> <<>>]
    ELSE
    LET pcc           == ctx.srtp[1]
        length0       == Len(gstBuf)
        hdrlen        == gst_rtp_buffer_get_header_len(gstBuf)
        srtpDataIndex == length0 - (pcc.tagLength + pcc.mkiLength)
        length        == srtpDataIndex
        payloadlen    == (length0 - hdrlen) - (pcc.tagLength + pcc.mkiLength)
        tag           == Sub(gstBuf, srtpDataIndex + pcc.mkiLength, pcc.tagLength)
        seqnum        == gst_rtp_buffer_get_seq(gstBuf)
    IN  IF ~checkReplay(pcc, seqnum)
        THEN [rc |-> -2, ctx |-> ctx, buf |-> gstBuf, calls |-> <<"checkReplay">>]
        ELSE
        LET guessedIndex == guessIndex(pcc, seqnum)
            guessedRoc   == guessedIndex \div SeqMod
            mac          == srtpAuthenticate(pcc, gstBuf, length, guessedRoc)
        IN  IF tag # mac
            THEN [rc |-> -1, ctx |-> ctx, buf |-> gstBuf,
                  calls |-> <<"checkReplay", "guessIndex", "srtpAuthenticate">>]
            ELSE
            LET ssrc == gst_rtp_buffer_get_ssrc(gstBuf)
                dec  == srtpEncrypt(pcc, gstBuf, hdrlen, payloadlen,
                                    guessedIndex, ssrc)
            IN  [rc |-> 1,
                 ctx |-> [ctx EXCEPT !.srtp = <<update(pcc, seqnum)>>],
                 buf |-> Sub(dec, 0, srtpDataIndex),
                 calls |-> <<"checkReplay", "guessIndex", "srtpAuthenticate",
                             "srtpEncrypt", "update">>]

\* ---------------------------- CryptoContextCtrl (SRTP library) and SRTCP

CryptoContextCtrl(ssrc, masterKey, masterSalt, tagLength) ==
    [label |-> 4, ssrc |-> ssrc, key |-> masterKey, salt |-> masterSalt,
     tagLength |-> tagLength, mkiLength |-> 0,
     s_l |-> 0, replay_window |-> {}]

checkReplayCtrl(cc, index) ==
    LET delta == index - cc.s_l
    IN  IF delta > 0 THEN TRUE
        ELSE IF -delta >= REPLAY_WINDOW_SIZE THEN FALSE
        ELSE (-delta) \notin cc.replay_window

updateCtrl(cc, index) ==
    LET delta == index - cc.s_l
    IN  IF delta > 0
        THEN [cc EXCEPT !.replay_window =
                            {d + delta : d \in {e \in cc.replay_window :
                                                e + delta < REPLAY_WINDOW_SIZE}}
                            \cup {0},
                        !.s_l = index]
        ELSE [cc EXCEPT !.replay_window = cc.replay_window \cup {-delta}]

\* an encryption that starts at the first byte of the packet
srtcpEncrypt_FromStart(cc, data, off, len, index, ssrc) ==
    CryptRange(cc, data, 0, off + len, index, ssrc)

srtcpEncrypt(cc, data, off, len, index, ssrc) ==
    CryptRange(cc, data, off, len, index, ssrc)

srtcpAuthenticate(cc, pkt, pktlen, encIndex) ==
    [i \in 1..cc.tagLength |-> <<i>> \o Digest(cc, pkt, pktlen, encIndex)]

ZsrtpContextCtrl(cc, srtcpIndex) == [srtcp |-> <<cc>>, srtcpIndex |-> srtcpIndex]

zsrtp_CreateWrapperCtrl(ssrc, masterKey, masterSalt, tagLength) ==
    ZsrtpContextCtrl(CryptoContextCtrl(ssrc, masterKey, masterSalt, tagLength), 0)

zsrtp_protectCtrl(ctx, gstBuf) ==
    IF ctx.srtcp = <<>> THEN [rc |-> 0, ctx |-> ctx, buf |-> gstBuf, calls |-> <<>>]
    ELSE
    LET pcc       == ctx.srtcp[1]
        length    == Len(gstBuf)
        newLength == length + pcc.tagLength + 4
        data      == Realloc(gstBuf, newLength)
        ssrc      == ReadU32(data, 4)
        enc       == srtcpEncrypt(pcc, data, 8, length - 8, ctx.srtcpIndex, ssrc)
        encIndex  == SetBit31(ctx.srtcpIndex)
        withIndex == Store(enc, length, U32(encIndex))
        mac       == srtcpAuthenticate(pcc, withIndex, length, encIndex)
        out       == Store(withIndex, length + 4, mac)
    IN  [rc |-> 1,
         ctx |-> [ctx EXCEPT !.srtcpIndex = ClearBit31(Inc32(ctx.srtcpIndex))],
         buf |-> out,
         calls |-> <<"srtcpEncrypt", "srtcpAuthenticate">>]

zsrtp_unprotectCtrl(ctx, gstBuf) ==
    IF ctx.srtcp = <<>> THEN [rc |-> 0, ctx |-> ctx, buf |-> gstBuf, calls |-> <<>>]
    ELSE
    LET pcc         == ctx.srtcp[1]
        length      == Len(gstBuf)
        payloadLen  == length - (pcc.tagLength + pcc.mkiLength + 4)
        encIndex    == ReadU32(gstBuf, payloadLen)
        remoteIndex == ClearBit31(encIndex)
    IN  IF ~checkReplayCtrl(pcc, remoteIndex)
        THEN [rc |-> -2, ctx |-> ctx, buf |-> gstBuf, calls |-> <<"checkReplay">>]
        ELSE
        LET tag == Sub(gstBuf, length - pcc.tagLength, pcc.tagLength)
            mac == srtcpAuthenticate(pcc, gstBuf, payloadLen, encIndex)
        IN  IF tag # mac
            THEN [rc |-> -1, ctx |-> ctx, buf |-> gstBuf,
                  calls |-> <<"checkReplay", "srtcpAuthenticate">>]
            ELSE
            LET ssrc == ReadU32(gstBuf, 4)
                dec  == IF encIndex < 0
                        THEN srtcpEncrypt(pcc, gstBuf, 8, payloadLen - 8,
                                          remoteIndex, ssrc)
                        ELSE gstBuf
            IN  [rc |-> 1,
                 ctx |-> [ctx EXCEPT !.srtcp = <<updateCtrl(pcc, remoteIndex)>>],
                 buf |-> Sub(dec, 0, payloadLen),
                 calls |-> IF encIndex < 0
                           THEN <<"checkReplay", "srtcpAuthenticate",
                                  "srtcpEncrypt", "update">>
                           ELSE <<"checkReplay", "srtcpAuthenticate", "update">>]

\* ------------------------------------------------ ZRTP packets on the wire

ZRTP_MAGIC == 1515344976

CRC_SIZE == 4

MAX_ZRTP_SIZE == 3072

\* the checksum of the ZRTP library, kept as a position-weighted sum: it
\* changes whenever one byte of the packet changes
RECURSIVE WeightedSum(_, _)
WeightedSum(buf, len) ==
    IF len <= 0 THEN 0
    ELSE (WeightedSum(buf, len - 1) + len * ByteAt(buf, len - 1)) % 65521

zrtp_GenerateCksum(buffer, length) == WeightedSum(buffer, length)

zrtp_EndCksum(crc) == 65535 - crc

\* a variant that accepts any checksum
zrtp_CheckCksum_Any(buffer, length, crc) == TRUE

zrtp_CheckCksum(buffer, length, crc) ==
    zrtp_EndCksum(zrtp_GenerateCksum(buffer, length)) = crc

\* ------------------------------------------------------ the filter element

GST_FLOW_OK == 0

GST_FLOW_ERROR == -5

ForSender == "ForSender"

ForReceiver == "ForReceiver"

Initiator == "Initiator"

Responder == "Responder"

\* what a handler does to the world outside the filter, in order
Ev(ev, what, sub, buf, n) ==
    [ev |-> ev, what |-> what, sub |-> sub, buf |-> buf, n |-> n]

Emit(w, e) == [w EXCEPT !.out = Append(@, e)]

\* the pad's peer returns flow
gst_pad_push(w, pad, gstBuf, flow) ==
    [Emit(w, Ev("push", pad, "", gstBuf, flow)) EXCEPT !.rc = flow]

gst_buffer_unref(w, gstBuf) == Emit(w, Ev("unref", "", "", gstBuf, 0))

\* zrtp_MessageSeverity; a signal without a severity argument has 0
MessageSeverity(severity) ==
    CASE severity = "zrtp_Info"      -> 1
      [] severity = "zrtp_Warning"   -> 2
      [] severity = "zrtp_Severe"    -> 3
      [] severity = "zrtp_ZrtpError" -> 4
      [] OTHER                       -> 0

\* a variant that reaches no handler
g_signal_emit_Unconnected(w, signal, severity, subCode) == w

g_signal_emit(w, signal, severity, subCode) ==
    Emit(w, Ev("signal", signal, subCode, <<>>, MessageSeverity(severity)))

\* a call of the SRTP wrapper and what it returned
Called(w, fn, rc) == Emit(w, Ev("call", fn, "", <<>>, rc))

\* the ZRTP engine behind zrtpCtx
\* the ZID file name and the MitM mode it was initialized with (<<>> is the
\* NULL name: the engine's default file), the multi-stream parameters it
\* can hand out and those it was given
ZrtpContext ==
    [initialized |-> FALSE, started |-> FALSE, zidFilename |-> <<>>,
     mitmMode |-> FALSE, multiStrParams |-> <<>>, slaveParams |-> <<>>]

gst_zrtp_filter_init ==
    [zrtpCtx |-> <<ZrtpContext>>, zrtpSeq |-> 1, localSSRC |-> 0, peerSSRC |-> 0,
     enableZrtp |-> FALSE, started |-> FALSE, clockId |-> 0, sysclock |-> {},
     srtpReceive |-> <<>>, srtcpReceive |-> <<>>, srtpSend |-> <<>>, srtcpSend |-> <<>>,
     protect |-> 0, unprotect |-> 0, unprotect_err |-> 0,
     cacheName |-> <<>>, mitmMode |-> FALSE, gotMultiParam |-> FALSE]

\* the secrets the handshake agrees on
SrtpSecret(r) ==
    [role |-> r, keyInitiator |-> 1, saltInitiator |-> 2,
     keyResponder |-> 3, saltResponder |-> 4, srtpAuthTagLen |-> 32]

\* a variant that leaves the room for the CRC as the engine filled it
zrtp_sendDataZRTP_NoCrc(w, data) ==
    LET header == <<B(16), B(0)>> \o U16(w.z.zrtpSeq % SeqMod)
                      \o U32(ZRTP_MAGIC) \o U32(w.z.localSSRC)
    IN  IF Len(data) + 12 > MAX_ZRTP_SIZE THEN w
        ELSE [gst_pad_push([w EXCEPT !.z.zrtpSeq = @ + 1], "send_rtp_src",
                           header \o data, GST_FLOW_OK) EXCEPT !.rc = w.rc]

zrtp_sendDataZRTP(w, data) ==
    LET length   == Len(data)
        totalLen == length + 12
        header   == <<B(16), B(0)>> \o U16(w.z.zrtpSeq % SeqMod)
                        \o U32(ZRTP_MAGIC) \o U32(w.z.localSSRC)
        buffer   == header \o data
        crc      == zrtp_EndCksum(zrtp_GenerateCksum(buffer, totalLen - CRC_SIZE))
        gstBuf   == Store(buffer, totalLen - CRC_SIZE, U32(crc))
    IN  IF totalLen > MAX_ZRTP_SIZE THEN w
        ELSE [gst_pad_push([w EXCEPT !.z.zrtpSeq = @ + 1], "send_rtp_src", gstBuf,
                           GST_FLOW_OK) EXCEPT !.rc = w.rc]

\* gst_clock_new_single_shot_id: an entry the clock does not hold yet
NewClockId(pending) ==
    CHOOSE id \in 1..(Cardinality(pending) + 1) : id \notin pending

\* sysclock is the set of entries that wait at the clock for their time;
\* clockId is the entry the filter remembers, 0 for NULL
zrtp_activateTimer(w) ==
    LET id == NewClockId(w.z.sysclock)
    IN  [w EXCEPT !.z.clockId = id, !.z.sysclock = @ \cup {id}]

zrtp_cancelTimer(w) ==
    IF w.z.clockId # 0
    THEN [w EXCEPT !.z.sysclock = @ \ {w.z.clockId}, !.z.clockId = 0]
    ELSE w

\* a variant in which every context takes the keys of the filter's own role
zrtp_srtpSecretsReady_OwnKeys(w, secrets, part) ==
    LET mine   == secrets.role = Initiator
        key    == IF mine THEN secrets.keyInitiator ELSE secrets.keyResponder
        salt   == IF mine THEN secrets.saltInitiator ELSE secrets.saltResponder
        tagLen == secrets.srtpAuthTagLen \div 8
    IN  IF part = ForSender
        THEN [w EXCEPT
                !.z.srtpSend = <<zsrtp_CreateWrapper(w.z.localSSRC, 0, key, salt, tagLen)>>,
                !.z.srtcpSend = <<zsrtp_CreateWrapperCtrl(w.z.localSSRC, key, salt, tagLen)>>]
        ELSE [w EXCEPT
                !.z.srtpReceive = <<zsrtp_CreateWrapper(w.z.peerSSRC, 0, key, salt, tagLen)>>,
                !.z.srtcpReceive = <<zsrtp_CreateWrapperCtrl(w.z.peerSSRC, key, salt, tagLen)>>]

\* a variant that creates the receiver's contexts for the local SSRC
zrtp_srtpSecretsReady_LocalSsrc(w, secrets, part) ==
    LET mine   == (part = ForSender) = (secrets.role = Initiator)
        key    == IF mine THEN secrets.keyInitiator ELSE secrets.keyResponder
        salt   == IF mine THEN secrets.saltInitiator ELSE secrets.saltResponder
        tagLen == secrets.srtpAuthTagLen \div 8
    IN  IF part = ForSender
        THEN [w EXCEPT
                !.z.srtpSend = <<zsrtp_CreateWrapper(w.z.localSSRC, 0, key, salt, tagLen)>>,
                !.z.srtcpSend = <<zsrtp_CreateWrapperCtrl(w.z.localSSRC, key, salt, tagLen)>>]
        ELSE [w EXCEPT
                !.z.srtpReceive = <<zsrtp_CreateWrapper(w.z.localSSRC, 0, key, salt, tagLen)>>,
                !.z.srtcpReceive = <<zsrtp_CreateWrapperCtrl(w.z.localSSRC, key, salt, tagLen)>>]

zrtp_srtpSecretsReady(w, secrets, part) ==
    LET mine   == (part = ForSender) = (secrets.role = Initiator)
        key    == IF mine THEN secrets.keyInitiator ELSE secrets.keyResponder
        salt   == IF mine THEN secrets.saltInitiator ELSE secrets.saltResponder
        tagLen == secrets.srtpAuthTagLen \div 8
    IN  IF part = ForSender
        THEN [w EXCEPT
                !.z.srtpSend = <<zsrtp_CreateWrapper(w.z.localSSRC, 0, key, salt, tagLen)>>,
                !.z.srtcpSend = <<zsrtp_CreateWrapperCtrl(w.z.localSSRC, key, salt, tagLen)>>]
        ELSE [w EXCEPT
                !.z.srtpReceive = <<zsrtp_CreateWrapper(w.z.peerSSRC, 0, key, salt, tagLen)>>,
                !.z.srtcpReceive = <<zsrtp_CreateWrapperCtrl(w.z.peerSSRC, key, salt, tagLen)>>]

\* a variant that drops the contexts of both parts
zrtp_srtpSecretsOff_BothParts(w, part) ==
    g_signal_emit([w EXCEPT !.z.srtpSend = <<>>, !.z.srtcpSend = <<>>,
                            !.z.srtpReceive = <<>>, !.z.srtcpReceive = <<>>],
                  "security-off", "", "")

zrtp_srtpSecretsOff(w, part) ==
    LET off == IF part = ForSender
               THEN [w EXCEPT !.z.srtpSend = <<>>, !.z.srtcpSend = <<>>]
               ELSE [w EXCEPT !.z.srtpReceive = <<>>, !.z.srtcpReceive = <<>>]
    IN  g_signal_emit(off, "security-off", "", "")

\* the message the engine sends: four bytes of body, and room for the CRC
ZrtpMessage == <<B(80), B(90), B(0), B(1), B(0), B(0), B(0), B(0)>>

\* what the engine does, through its callbacks, when the filter calls it
zrtp_sendInfo(w, severity, subCode) == g_signal_emit(w, "status", severity, subCode)

\* the multi-stream parameters of a master session that is secure
MultiStrParams == <<B(77), B(83)>>

Reactions ==
    {"none", "send", "timerOn", "timerOff", "readySend", "readyRecv", "offSend", "offRecv"}

React(w, r) ==
    LET c == Emit(w, Ev("callback", r, "", <<>>, 0))
    IN  CASE r = "send"      -> zrtp_sendDataZRTP(c, ZrtpMessage)
          [] r = "timerOn"   -> zrtp_activateTimer(c)
          [] r = "timerOff"  -> zrtp_cancelTimer(c)
          [] r = "readySend" -> zrtp_srtpSecretsReady(c, SrtpSecret(role), ForSender)
          [] r = "readyRecv" -> zrtp_srtpSecretsReady(c, SrtpSecret(role), ForReceiver)
          [] r = "offSend"   -> zrtp_srtpSecretsOff(c, ForSender)
          [] r = "offRecv"   -> zrtp_srtpSecretsOff(c, ForReceiver)
          [] r = "secureOn"  ->
                zrtp_sendInfo(
                    [c EXCEPT !.z.zrtpCtx =
                                  <<[c.z.zrtpCtx[1] EXCEPT !.multiStrParams = MultiStrParams]>>],
                    "zrtp_Info", "zrtp_InfoSecureStateOn")
          [] OTHER           -> w

EngineOf(w) == w.z.zrtpCtx[1]

zrtp_initializeZrtpEngine(w, zidFilename, mitmMode) ==
    IF w.z.zrtpCtx = <<>> THEN w
    ELSE Emit([w EXCEPT !.z.zrtpCtx = <<[EngineOf(w) EXCEPT !.initialized = TRUE,
                                                            !.zidFilename = zidFilename,
                                                            !.mitmMode = mitmMode]>>],
              Ev("engine", "zrtp_initializeZrtpEngine", "", zidFilename,
                 IF mitmMode THEN 1 ELSE 0))

\* the parameters a master session hands out once it is secure: NULL before
zrtp_getMultiStrParams(w) == EngineOf(w).multiStrParams

zrtp_setMultiStrParams(w, parameters) ==
    Emit([w EXCEPT !.z.zrtpCtx = <<[EngineOf(w) EXCEPT !.slaveParams = parameters]>>],
         Ev("engine", "zrtp_setMultiStrParams", "", parameters, Len(parameters)))

\* the engine sends its Hello and arms the retransmission timer
zrtp_startZrtpEngine(w) ==
    LET called == Emit(w, Ev("engine", "zrtp_startZrtpEngine", "", <<>>, 0))
    IN  IF w.z.zrtpCtx = <<>> THEN called
        ELSE IF EngineOf(w).initialized /\ ~EngineOf(w).started
        THEN zrtp_activateTimer(zrtp_sendDataZRTP(
                 [called EXCEPT !.z.zrtpCtx = <<[EngineOf(w) EXCEPT !.started = TRUE]>>],
                 ZrtpMessage))
        ELSE called

\* an engine that is not started ignores the message
zrtp_processZrtpMessage(w, zrtpMsg, peerSSRC, length, r) ==
    LET called == Emit(w, Ev("engine", "zrtp_processZrtpMessage", "", zrtpMsg, 0))
    IN  IF EngineOf(w).started THEN React(called, r) ELSE called

zrtp_processTimeout(w, r) ==
    LET called == Emit(w, Ev("engine", "zrtp_processTimeout", "", <<>>, 0))
    IN  IF w.z.zrtpCtx # <<>> /\ EngineOf(w).started THEN React(called, r) ELSE called

\* a variant that passes the NULL name whatever cache-name holds
zrtp_initialize_NoName(w, zidFilename, autoEnable) ==
    [zrtp_initializeZrtpEngine(w, <<>>, w.z.mitmMode)
        EXCEPT !.z.enableZrtp = autoEnable]

zrtp_initialize(w, zidFilename, autoEnable) ==
    [zrtp_initializeZrtpEngine(w, zidFilename, w.z.mitmMode)
        EXCEPT !.z.enableZrtp = autoEnable]

\* a variant that leaves the started flag as it was
zrtp_filter_startZrtp_NoFlag(w) == zrtp_startZrtpEngine(w)

zrtp_filter_startZrtp(w) ==
    [zrtp_startZrtpEngine(w) EXCEPT !.z.started = TRUE]

\* a started engine closes its session: it cancels its timer and switches
\* secure mode off for both parts
zrtp_stopZrtpEngine(w) ==
    LET called == Emit(w, Ev("engine", "zrtp_stopZrtpEngine", "", <<>>, 0))
    IN  IF w.z.zrtpCtx # <<>> /\ EngineOf(w).started
        THEN zrtp_srtpSecretsOff(
                 zrtp_srtpSecretsOff(
                     zrtp_cancelTimer(
                         [called EXCEPT !.z.zrtpCtx =
                                            <<[EngineOf(w) EXCEPT !.started = FALSE]>>]),
                     ForSender),
                 ForReceiver)
        ELSE called

\* zrtpCtx = <<>> is NULL; the clock keeps its entries when the filter
\* gives up its reference to the clock
zrtp_filter_stopZrtp(w) ==
    [zrtp_stopZrtpEngine(w) EXCEPT !.z.zrtpCtx = <<>>, !.z.started = FALSE,
                                   !.z.enableZrtp = FALSE]

gst_zrtp_filter_finalize(w) == zrtp_filter_stopZrtp(w)

\* --------------------------------------------------- the chain functions

\* a variant that compares the whole first byte
AndF0_AllBits(byte) == byte

\* byte & 0xf0
AndF0(byte) == (byte \div 16) * 16

\* the memory next to a buffer: what lies before its first byte and after its
\* last one
NoSlack == [before |-> <<>>, after |-> <<>>]

\* the handler of recv_rtp_sink on a buffer that lies between the bytes of
\* slack: a read through a pointer outside the buffer gets what lies there
gst_zrtp_filter_chain_rtp_up_In(w, gstBuf, slack, r, flow) ==
    IF AndF0(ByteAt(gstBuf, 0)) # 16
    THEN
        LET w1 ==
              IF w.z.srtpReceive = <<>>
              THEN gst_pad_push(w, "recv_rtp_src", gstBuf, flow)
              ELSE
                LET u  == zsrtp_unprotect(w.z.srtpReceive[1], gstBuf)
                    wu == Called([w EXCEPT !.z.srtpReceive = <<u.ctx>>],
                                 "zsrtp_unprotect", u.rc)
                IN  IF u.rc = 1
                    THEN [gst_pad_push([wu EXCEPT !.z.unprotect = @ + 1],
                                       "recv_rtp_src", u.buf, flow)
                            EXCEPT !.z.unprotect_err = 0]
                    ELSE [gst_buffer_unref(
                              g_signal_emit(wu, "status", "zrtp_Warning",
                                  IF u.rc = -1 THEN "zrtp_WarningSRTPauthError"
                                  ELSE "zrtp_WarningSRTPreplayError"),
                              u.buf)
                            EXCEPT !.z.unprotect_err = u.rc, !.rc = GST_FLOW_ERROR]
        IN  IF ~w1.z.started /\ w1.z.enableZrtp
            THEN zrtp_filter_startZrtp(w1) ELSE w1
    ELSE IF w.z.enableZrtp /\ w.z.zrtpCtx # <<>>
    THEN
        LET o      == Len(slack.before)
            memory == slack.before \o gstBuf \o slack.after
            buffer == Sub(memory, o, Len(memory) - o)
            temp   == Len(gstBuf) - CRC_SIZE
            crc    == ReadU32(memory, o + temp)
            magic  == ReadU32(buffer, 4)
        IN  IF magic # ZRTP_MAGIC \/ w.z.zrtpCtx = <<>>
            THEN [gst_buffer_unref(w, gstBuf) EXCEPT !.rc = GST_FLOW_ERROR]
            ELSE IF ~zrtp_CheckCksum(buffer, temp, crc)
            THEN [g_signal_emit(w, "status", "zrtp_Warning", "zrtp_WarningCRCmismatch")
                    EXCEPT !.rc = GST_FLOW_ERROR]
            ELSE
                LET w1 == IF ~w.z.started THEN zrtp_filter_startZrtp(w) ELSE w
                    w2 == [w1 EXCEPT !.z.peerSSRC = ReadU32(buffer, 8)]
                    w3 == zrtp_processZrtpMessage(w2, Sub(buffer, 12, Len(gstBuf) - 12),
                                                  w2.z.peerSSRC, Len(gstBuf), r)
                IN  [gst_buffer_unref(w3, gstBuf) EXCEPT !.rc = GST_FLOW_OK]
    ELSE [gst_buffer_unref(w, gstBuf) EXCEPT !.rc = GST_FLOW_OK]

gst_zrtp_filter_chain_rtp_up(w, gstBuf, r, flow) ==
    gst_zrtp_filter_chain_rtp_up_In(w, gstBuf, NoSlack, r, flow)

gst_zrtp_filter_chain_rtp_down(w, gstBuf, flow) ==
    LET w0 == IF w.z.localSSRC = 0
              THEN [w EXCEPT !.z.localSSRC = gst_rtp_buffer_get_ssrc(gstBuf)] ELSE w
        w1 == IF ~w0.z.started /\ w0.z.enableZrtp THEN zrtp_filter_startZrtp(w0) ELSE w0
    IN  IF w1.z.srtpSend = <<>>
        THEN gst_pad_push(w1, "send_rtp_src", gstBuf, flow)
        ELSE
            LET p  == zsrtp_protect(w1.z.srtpSend[1], gstBuf)
                wp == Called([w1 EXCEPT !.z.srtpSend = <<p.ctx>>, !.z.protect = @ + 1],
                             "zsrtp_protect", p.rc)
            IN  IF p.rc = 1
                THEN gst_pad_push(wp, "send_rtp_src", p.buf, flow)
                ELSE gst_buffer_unref([wp EXCEPT !.rc = GST_FLOW_ERROR], p.buf)

\* a variant that forwards the buffer whatever zsrtp_unprotectCtrl returns
gst_zrtp_filter_chain_rtcp_up_PushAlways(w, gstBuf, flow) ==
    IF w.z.srtcpReceive = <<>>
    THEN gst_pad_push(w, "recv_rtcp_src", gstBuf, flow)
    ELSE
        LET u  == zsrtp_unprotectCtrl(w.z.srtcpReceive[1], gstBuf)
            wu == Called([w EXCEPT !.z.srtcpReceive = <<u.ctx>>],
                         "zsrtp_unprotectCtrl", u.rc)
        IN  gst_pad_push(wu, "recv_rtcp_src", u.buf, flow)

\* a variant that holds clear packets back once ZRTP is enabled
gst_zrtp_filter_chain_rtcp_up_WaitSecure(w, gstBuf, flow) ==
    IF w.z.srtcpReceive = <<>>
    THEN IF w.z.enableZrtp
         THEN [gst_buffer_unref(w, gstBuf) EXCEPT !.rc = GST_FLOW_OK]
         ELSE gst_pad_push(w, "recv_rtcp_src", gstBuf, flow)
    ELSE
        LET u  == zsrtp_unprotectCtrl(w.z.srtcpReceive[1], gstBuf)
            wu == Called([w EXCEPT !.z.srtcpReceive = <<u.ctx>>],
                         "zsrtp_unprotectCtrl", u.rc)
        IN  IF u.rc = 1
            THEN gst_pad_push(wu, "recv_rtcp_src", u.buf, flow)
            ELSE gst_buffer_unref([wu EXCEPT !.rc = GST_FLOW_ERROR], u.buf)

gst_zrtp_filter_chain_rtcp_up(w, gstBuf, flow) ==
    IF w.z.srtcpReceive = <<>>
    THEN gst_pad_push(w, "recv_rtcp_src", gstBuf, flow)
    ELSE
        LET u  == zsrtp_unprotectCtrl(w.z.srtcpReceive[1], gstBuf)
            wu == Called([w EXCEPT !.z.srtcpReceive = <<u.ctx>>],
                         "zsrtp_unprotectCtrl", u.rc)
        IN  IF u.rc = 1
            THEN gst_pad_push(wu, "recv_rtcp_src", u.buf, flow)
            ELSE gst_buffer_unref([wu EXCEPT !.rc = GST_FLOW_ERROR], u.buf)

\* a variant that sends the buffer as it came in
gst_zrtp_filter_chain_rtcp_down_Clear(w, gstBuf, flow) ==
    IF w.z.srtcpSend = <<>>
    THEN gst_pad_push(w, "send_rtcp_src", gstBuf, flow)
    ELSE
        LET p  == zsrtp_protectCtrl(w.z.srtcpSend[1], gstBuf)
            wp == Called([w EXCEPT !.z.srtcpSend = <<p.ctx>>],
                         "zsrtp_protectCtrl", p.rc)
        IN  gst_pad_push(wp, "send_rtcp_src", gstBuf, flow)

gst_zrtp_filter_chain_rtcp_down(w, gstBuf, flow) ==
    IF w.z.srtcpSend = <<>>
    THEN gst_pad_push(w, "send_rtcp_src", gstBuf, flow)
    ELSE
        LET p  == zsrtp_protectCtrl(w.z.srtcpSend[1], gstBuf)
            wp == Called([w EXCEPT !.z.srtcpSend = <<p.ctx>>],
                         "zsrtp_protectCtrl", p.rc)
        IN  IF p.rc = 1
            THEN gst_pad_push(wp, "send_rtcp_src", p.buf, flow)
            ELSE gst_buffer_unref([wp EXCEPT !.rc = GST_FLOW_ERROR], p.buf)

\* the clock calls back for its entry id, which has then left the clock
timer_callback(w, id, r) ==
    zrtp_processTimeout([w EXCEPT !.z.sysclock = @ \ {id}, !.z.clockId = 0], r)

gst_zrtp_filter_set_property(w, prop_id, value) ==
    CASE prop_id = "enable"     -> [w EXCEPT !.z.enableZrtp = (value # 0)]
      [] prop_id = "local-ssrc" -> [w EXCEPT !.z.localSSRC = value]
      [] prop_id = "set-mitm-mode" -> [w EXCEPT !.z.mitmMode = (value # 0)]
      [] prop_id = "cache-name" -> [w EXCEPT !.z.cacheName = value]
      [] prop_id = "initialize" -> zrtp_initialize(w, w.z.cacheName, value # 0)
      [] prop_id = "start"      -> zrtp_filter_startZrtp(w)
      [] prop_id = "multi-param" ->
            IF w.z.gotMultiParam THEN w
            ELSE zrtp_setMultiStrParams(w, value)
      [] OTHER                  -> w

\* the value read is the event "value" of the call
\* a variant that marks the filter as master on every read
gst_zrtp_filter_get_property_MarkAlways(w, prop_id) ==
    CASE prop_id = "multi-param" ->
            LET param == zrtp_getMultiStrParams(w)
            IN  Emit([w EXCEPT !.z.gotMultiParam = TRUE],
                     Ev("value", prop_id, "", param, Len(param)))
      [] OTHER -> w

gst_zrtp_filter_get_property(w, prop_id) ==
    CASE prop_id = "multi-param" ->
            LET param == zrtp_getMultiStrParams(w)
            IN  IF param = <<>>
                THEN Emit(w, Ev("value", prop_id, "", <<>>, 0))
                ELSE Emit([w EXCEPT !.z.gotMultiParam = TRUE],
                          Ev("value", prop_id, "", param, Len(param)))
      [] OTHER -> w

\* ------------------------------------------------- streams and packets

MaxPkts == 67

StartSeqs == {1000, 65534}

CsrcCounts == {0, 1}

StreamSsrc == 4660

MasterKey == 1

MasterSalt == 2

AuthTagLen == 4

PayloadOf(k) == [i \in 1..(k % 3) |-> B((7 * k + 3 * i) % 256)]

PlainRtp(st, k) ==
    <<B(128 + st.cc), B(96)>> \o U16((st.startSeq + k) % SeqMod)
        \o U32(0) \o U32(st.ssrc)
        \o [i \in 1..(4 * st.cc) |-> B(i)]
        \o PayloadOf(k)

PlainRtcp(st, k) ==
    <<B(128), B(200)>> \o U16(1 + (k % 2)) \o U32(st.ssrc)
        \o [i \in 1..(4 * (k % 2)) |-> B((5 * k + i) % 256)]

Plain(st, k) == IF st.proto = "srtp" THEN PlainRtp(st, k) ELSE PlainRtcp(st, k)

Protect(st, ctx, buf) ==
    IF st.proto = "srtp" THEN zsrtp_protect(ctx, buf) ELSE zsrtp_protectCtrl(ctx, buf)

Unprotect(st, ctx, buf) ==
    IF st.proto = "srtp" THEN zsrtp_unprotect(ctx, buf)
    ELSE zsrtp_unprotectCtrl(ctx, buf)

NewSender(st) ==
    IF st.proto = "srtp"
    THEN zsrtp_CreateWrapper(st.ssrc, 0, MasterKey, MasterSalt, AuthTagLen)
    ELSE zsrtp_CreateWrapperCtrl(st.ssrc, MasterKey, MasterSalt, AuthTagLen)

\* the sender's ROC, resp. SRTCP index
SenderIdx(st, ctx) ==
    IF st.proto = "srtp" THEN ctx.srtp[1].roc ELSE ctx.srtcpIndex

\* the sender's context as it was when it protected packet k
SenderAt(st, ctx, k) ==
    IF st.proto = "srtp"
    THEN [ctx EXCEPT !.srtp = <<[ctx.srtp[1] EXCEPT !.roc = sentIdx[k + 1]]>>]
    ELSE [ctx EXCEPT !.srtcpIndex = sentIdx[k + 1]]

\* packet k as it went over the wire
Protected(k) == Protect(stream, SenderAt(stream, sndCtx, k), Plain(stream, k)).buf

NoObs == [op |-> "none"]

Observe(op, k, in, ctx, r) ==
    [op |-> op, k |-> k, in |-> in, pre |-> ctx, rc |-> r.rc, out |-> r.buf,
     post |-> r.ctx, calls |-> r.calls]

\* ------------------------------------------------- threads and the heap

MaxObjs == 4

EngineThreads == {"timer", "recv"}

\* the chain functions and the context pointer each of them reads
ChainFunctions ==
    {"chain_rtp_up", "chain_rtcp_up", "chain_rtp_down", "chain_rtcp_down"}

FieldOf(fn) ==
    CASE fn = "chain_rtp_up"    -> "srtpReceive"
      [] fn = "chain_rtcp_up"   -> "srtcpReceive"
      [] fn = "chain_rtp_down"  -> "srtpSend"
      [] OTHER                  -> "srtcpSend"

\* the two pointers zrtp_srtpSecretsReady and zrtp_srtpSecretsOff work on
SrtpField(part) == IF part = ForSender THEN "srtpSend" ELSE "srtpReceive"

SrtcpField(part) == IF part = ForSender THEN "srtcpSend" ELSE "srtcpReceive"

Unused(h) == {o \in 1..MaxObjs : h[o] = "unused"}

\* new: the next object of the heap
New(h) == CHOOSE o \in Unused(h) : \A q \in Unused(h) : o <= q

\* delete: a NULL pointer is left alone
Delete(h, o) == IF o = 0 THEN h ELSE [h EXCEPT ![o] = "destroyed"]

StreamerIdle == [pc |-> "idle", fn |-> "", seen |-> 0, arg |-> 0, onCall |-> ""]

EngineIdle == [pc |-> "idle", part |-> "", srtp |-> 0, srtcp |-> 0]

IdleConc ==
    /\ heap = [o \in 1..MaxObjs |-> "unused"]
    /\ ctxPtr = [f \in {"srtpReceive", "srtcpReceive", "srtpSend", "srtcpSend"} |-> 0]
    /\ zrtpMutex = ""
    /\ streamer = StreamerIdle
    /\ engine = [t \in EngineThreads |-> EngineIdle]

\* ----------------------------------------------------------------- Spec
\* One filter element in a pipeline: the RTP session hands it RTP and RTCP
\* packets to send, the network hands it the packets of the peer's streams,
\* in any order and any number of times, altered or not, and ZRTP packets;
\* the application sets its properties, and its clock fires the timer the
\* ZRTP engine has armed.  Every handler runs to its end before the next
\* one starts.

MaxPeerPkts == 1

MaxLocalPkts == 1

MaxZrtpSeq == 3

MaxCount == 1

MaxTimers == 1

LocalSsrc == 4660

PeerSsrc == 22136

Flows == {GST_FLOW_OK, GST_FLOW_ERROR}

RtpFirstBytes == {0, 128, 255}

ZrtpFirstBytes == {16, 31}

PeerStream(proto) == [proto |-> proto, ssrc |-> PeerSsrc, startSeq |-> 1000, cc |-> 0]

LocalStream(proto) == [proto |-> proto, ssrc |-> LocalSsrc, startSeq |-> 2000, cc |-> 0]

\* the peer sends with the keys of the other role
PeerSecret(r) == SrtpSecret(IF r = Initiator THEN Responder ELSE Initiator)

\* the peer's filter once its engine has made the secrets ready for sending
PeerFilter(r) ==
    zrtp_srtpSecretsReady([z |-> [gst_zrtp_filter_init EXCEPT !.localSSRC = PeerSsrc],
                           out |-> <<>>, rc |-> GST_FLOW_OK],
                          PeerSecret(r), ForSender).z

\* packet k of the peer's RTP stream, as the peer's filter protects it
PeerSrtp ==
    [r \in {Initiator, Responder} |->
        [k \in 0..(MaxPeerPkts - 1) |->
            zsrtp_protect(PeerFilter(r).srtpSend[1],
                          PlainRtp(PeerStream("srtp"), k)).buf]]

\* packet k of the peer's RTCP stream, as the peer's filter protects it
PeerSrtcp ==
    [r \in {Initiator, Responder} |->
        [k \in 0..(MaxPeerPkts - 1) |->
            zsrtp_protectCtrl([PeerFilter(r).srtcpSend[1] EXCEPT !.srtcpIndex = k],
                              PlainRtcp(PeerStream("srtcp"), k)).buf]]

\* a ZRTP packet as the peer's filter frames it
ZrtpInFrom(first, magic, ssrc, goodCrc) ==
    LET buffer == <<B(first), B(0)>> \o U16(1) \o U32(magic) \o U32(ssrc)
                      \o ZrtpMessage
        temp   == Len(buffer) - CRC_SIZE
        crc    == zrtp_EndCksum(zrtp_GenerateCksum(buffer, temp))
    IN  Store(buffer, temp, U32(IF goodCrc THEN crc ELSE (crc + 1) % 65536))

ZrtpIn(first, magic, goodCrc) == ZrtpInFrom(first, magic, PeerSsrc, goodCrc)

\* the packet with the lowest bit of its last body byte flipped
Tampered(pkt, tail) ==
    [pkt EXCEPT ![Len(pkt) - tail] = B(Xor(Val(@), 1))]

World(z) == [z |-> z, out |-> <<>>, rc |-> GST_FLOW_ERROR]

\* the record of the handler that has just run: the filter before, the
\* handler's input, what it did to the world outside and what it returned
Ran(op, in, w) ==
    [op |-> op, pre |-> zrtp, in |-> in, out |-> w.out, rc |-> w.rc]

\* no handler has run since the last one returned
NoCall ==
    [op |-> "none", pre |-> gst_zrtp_filter_init, in |-> <<>>, out |-> <<>>,
     rc |-> GST_FLOW_OK]

Bounded(z) ==
    /\ z.zrtpSeq <= MaxZrtpSeq
    /\ z.unprotect <= MaxCount
    /\ z.protect <= MaxCount
    /\ z.srtcpSend # <<>> => z.srtcpSend[1].srtcpIndex <= MaxCount
    /\ Cardinality(z.sysclock) <= MaxTimers

IdleSrtp ==
    /\ stream = [proto |-> "srtp", ssrc |-> StreamSsrc, startSeq |-> 1000, cc |-> 0]
    /\ nSent = 0
    /\ sentIdx = <<>>
    /\ wire = <<>>
    /\ sndCtx = NewSender(stream)
    /\ rcvCtx = NewSender(stream)
    /\ obs = NoObs

Init ==
    /\ zrtp = gst_zrtp_filter_init
    /\ role \in {Initiator, Responder}
    /\ last = NoCall
    /\ IdleSrtp
    /\ IdleConc

\* ZRTP packets that are well formed
GoodZrtp == {ZrtpIn(first, ZRTP_MAGIC, TRUE) : first \in ZrtpFirstBytes}

\* ZRTP packets with a wrong magic cookie or a wrong CRC
BadZrtp ==
    {ZrtpIn(first, ZRTP_MAGIC + 1, TRUE) : first \in ZrtpFirstBytes}
        \cup {ZrtpIn(first, ZRTP_MAGIC, FALSE) : first \in ZrtpFirstBytes}

\* RTP packets of the peer in the clear, with any first byte that is not ZRTP's
ClearRtp ==
    {[PlainRtp(PeerStream("srtp"), k) EXCEPT ![1] = B(first)] :
         k \in 0..(MaxPeerPkts - 1), first \in RtpFirstBytes}

ClearRtcp == {PlainRtcp(PeerStream("srtcp"), k) : k \in 0..(MaxPeerPkts - 1)}

\* what may arrive on recv_rtp_sink
RtpUpInputs(r) ==
    ClearRtp \cup GoodZrtp \cup BadZrtp
      \cup {PeerSrtp[r][k] : k \in 0..(MaxPeerPkts - 1)}
      \cup {Tampered(PeerSrtp[r][k], AuthTagLen) : k \in 0..(MaxPeerPkts - 1)}

\* what may arrive on recv_rtcp_sink
RtcpUpInputs(r) ==
    ClearRtcp
      \cup {PeerSrtcp[r][k] : k \in 0..(MaxPeerPkts - 1)}
      \cup {Tampered(PeerSrtcp[r][k], AuthTagLen + 4) : k \in 0..(MaxPeerPkts - 1)}

LocalRtp == {PlainRtp(LocalStream("srtp"), k) : k \in 0..(MaxLocalPkts - 1)}

LocalRtcp == {PlainRtcp(LocalStream("srtcp"), k) : k \in 0..(MaxLocalPkts - 1)}

\* a buffer arrives on recv_rtp_sink
ChainRtpUp ==
    /\ last = NoCall
    /\ \E in \in RtpUpInputs(role) :
      \E r \in IF in \in GoodZrtp THEN Reactions ELSE {"none"},
         flow \in IF in \in GoodZrtp \cup BadZrtp THEN {GST_FLOW_OK} ELSE Flows :
        \E w \in {gst_zrtp_filter_chain_rtp_up(World(zrtp), in, r, flow)} :
            /\ Bounded(w.z)
            /\ zrtp' = w.z
            /\ last' = Ran("chain_rtp_up", in, w)
            /\ UNCHANGED <<role, srtpVars, concVars>>

\* a buffer arrives on recv_rtcp_sink
ChainRtcpUp ==
    /\ last = NoCall
    /\ \E in \in RtcpUpInputs(role), flow \in Flows :
        \E w \in {gst_zrtp_filter_chain_rtcp_up(World(zrtp), in, flow)} :
            /\ Bounded(w.z)
            /\ zrtp' = w.z
            /\ last' = Ran("chain_rtcp_up", in, w)
            /\ UNCHANGED <<role, srtpVars, concVars>>

\* the RTP session hands a packet to send_rtp_sink
ChainRtpDown ==
    /\ last = NoCall
    /\ \E in \in LocalRtp, flow \in Flows :
        \E w \in {gst_zrtp_filter_chain_rtp_down(World(zrtp), in, flow)} :
            /\ Bounded(w.z)
            /\ zrtp' = w.z
            /\ last' = Ran("chain_rtp_down", in, w)
            /\ UNCHANGED <<role, srtpVars, concVars>>

\* the RTP session hands a packet to send_rtcp_sink
ChainRtcpDown ==
    /\ last = NoCall
    /\ \E in \in LocalRtcp, flow \in Flows :
        \E w \in {gst_zrtp_filter_chain_rtcp_down(World(zrtp), in, flow)} :
            /\ Bounded(w.z)
            /\ zrtp' = w.z
            /\ last' = Ran("chain_rtcp_down", in, w)
            /\ UNCHANGED <<role, srtpVars, concVars>>

\* the application sets a property
SetProperty ==
    /\ last = NoCall
    /\ \E prop_id \in {"enable", "local-ssrc", "initialize", "start"}, value \in {0, 1} :
      \E v \in {IF prop_id = "local-ssrc" THEN LocalSsrc ELSE value} :
        \E w \in {gst_zrtp_filter_set_property(World(zrtp), prop_id, v)} :
            /\ Bounded(w.z)
            /\ zrtp' = w.z
            /\ last' = Ran(prop_id, <<B(v % 256)>>, w)
            /\ UNCHANGED <<role, srtpVars, concVars>>

\* the clock fires the timer of the engine
TimerCallback ==
    /\ last = NoCall
    /\ \E id \in zrtp.sysclock, r \in Reactions :
        \E w \in {timer_callback(World(zrtp), id, r)} :
            /\ Bounded(w.z)
            /\ zrtp' = w.z
            /\ last' = Ran("timer_callback", <<B(id)>>, w)
    /\ UNCHANGED <<role, srtpVars, concVars>>

\* the handler returns to its caller, which takes the result
Return ==
    /\ last # NoCall
    /\ last' = NoCall
    /\ UNCHANGED <<zrtp, role, srtpVars, concVars>>

Next ==
    \/ ChainRtpUp \/ ChainRtcpUp \/ ChainRtpDown \/ ChainRtcpDown
    \/ SetProperty \/ TimerCallback \/ Return

Spec == Init /\ [][Next]_vars

\* ---------------------------------------------------- properties of Spec

\* the pushes of the handler that has just run, as positions in last.out
AllPushes == {i \in 1..Len(last.out) : last.out[i].ev = "push"}

Pushes(pad) == {i \in AllPushes : last.out[i].what = pad}

\* the pushes of buffers that are not ZRTP packets
MediaPushes == {i \in AllPushes : ByteAt(last.out[i].buf, 0) \div 16 # 1}

\* the calls of the ZRTP engine by the handler that has just run
EngineCalls == {i \in 1..Len(last.out) : last.out[i].ev = "engine"}

MessagesProcessed ==
    {i \in EngineCalls : last.out[i].what = "zrtp_processZrtpMessage"}

\* the handler that has just run got a buffer that is not a ZRTP candidate
RtpCame == last.op = "chain_rtp_up" /\ ByteAt(last.in, 0) \div 16 # 1

\* the handler that has just run got a ZRTP candidate
CandidateCame == last.op = "chain_rtp_up" /\ ByteAt(last.in, 0) \div 16 = 1

\* C1: while srtpReceive (srtcpReceive) is installed, a non-ZRTP buffer is
\* pushed to recv_rtp_src (recv_rtcp_src) only if zsrtp_unprotect
\* (zsrtp_unprotectCtrl) returned 1 on it, and it is then the unprotected
\* buffer; a buffer whose unprotect does not return 1 is pushed on no pad.
C1_UnprotectGate ==
    /\ (RtpCame /\ last.pre.srtpReceive # <<>>) =>
         LET u == zsrtp_unprotect(last.pre.srtpReceive[1], last.in)
         IN  /\ \A i \in Pushes("recv_rtp_src") :
                    u.rc = 1 /\ last.out[i].buf = u.buf
             /\ u.rc # 1 =>
                    \A i \in AllPushes : last.out[i].buf \notin {last.in, u.buf}
    /\ (last.op = "chain_rtcp_up" /\ last.pre.srtcpReceive # <<>>) =>
         LET u == zsrtp_unprotectCtrl(last.pre.srtcpReceive[1], last.in)
         IN  /\ \A i \in Pushes("recv_rtcp_src") :
                    u.rc = 1 /\ last.out[i].buf = u.buf
             /\ u.rc # 1 =>
                    \A i \in AllPushes : last.out[i].buf \notin {last.in, u.buf}

\* a replayed SRTP packet has come in and nothing went to recv_rtp_src
C1_Witness ==
    /\ RtpCame
    /\ last.pre.srtpReceive # <<>>
    /\ zsrtp_unprotect(last.pre.srtpReceive[1], last.in).rc = -2
    /\ Pushes("recv_rtp_src") = {}
    /\ last.rc = GST_FLOW_ERROR

\* C2: while srtpSend (srtcpSend) is installed, every media buffer pushed on
\* send_rtp_src (send_rtcp_src) is the result of a protect call on the
\* handler's input that returned 1, and differs from that input; nothing
\* else but the engine's ZRTP packets leaves on send_rtp_src.
C2_ProtectGate ==
    /\ last.pre.srtpSend # <<>> =>
         \A i \in Pushes("send_rtp_src") \cap MediaPushes :
            /\ last.op = "chain_rtp_down"
            /\ LET p == zsrtp_protect(last.pre.srtpSend[1], last.in)
               IN  p.rc = 1 /\ last.out[i].buf = p.buf /\ p.buf # last.in
    /\ last.pre.srtcpSend # <<>> =>
         \A i \in Pushes("send_rtcp_src") :
            /\ last.op = "chain_rtcp_down"
            /\ LET p == zsrtp_protectCtrl(last.pre.srtcpSend[1], last.in)
               IN  p.rc = 1 /\ last.out[i].buf = p.buf /\ p.buf # last.in

\* an RTP packet has been protected and sent while srtpSend is installed
C2_Witness ==
    /\ last.op = "chain_rtp_down"
    /\ last.pre.srtpSend # <<>>
    /\ \E i \in Pushes("send_rtp_src") :
          last.out[i].buf = zsrtp_protect(last.pre.srtpSend[1], last.in).buf
    /\ zrtp.protect = last.pre.protect + 1

\* the context pointer the handler that has just run looked at
ContextOf ==
    CASE last.op = "chain_rtp_up"    -> last.pre.srtpReceive
      [] last.op = "chain_rtcp_up"   -> last.pre.srtcpReceive
      [] last.op = "chain_rtp_down"  -> last.pre.srtpSend
      [] last.op = "chain_rtcp_down" -> last.pre.srtcpSend
      [] OTHER                       -> <<>>

\* the source pad of the path of the handler that has just run
SrcPadOf ==
    CASE last.op = "chain_rtp_up"    -> "recv_rtp_src"
      [] last.op = "chain_rtcp_up"   -> "recv_rtcp_src"
      [] last.op = "chain_rtp_down"  -> "send_rtp_src"
      [] last.op = "chain_rtcp_down" -> "send_rtcp_src"
      [] OTHER                       -> ""

\* C3: on each of the four data paths, when the path's context pointer is
\* NULL, a non-ZRTP buffer is pushed exactly once, on the path's source pad,
\* with its bytes and its length as they came in, whatever enableZrtp and
\* started are.
C3_Passthrough ==
    (/\ SrcPadOf # ""
     /\ ContextOf = <<>>
     /\ ByteAt(last.in, 0) \div 16 # 1) =>
        /\ Cardinality(MediaPushes) = 1
        /\ \A i \in MediaPushes :
              /\ last.out[i].what = SrcPadOf
              /\ last.out[i].buf = last.in
              /\ Len(last.out[i].buf) = Len(last.in)

\* a clear RTP packet has gone out in the call that started ZRTP, next to
\* the engine's first ZRTP packet
C3_Witness ==
    /\ last.op = "chain_rtp_down"
    /\ last.pre.srtpSend = <<>>
    /\ last.pre.enableZrtp
    /\ ~last.pre.started
    /\ zrtp.started
    /\ Cardinality(Pushes("send_rtp_src")) = 2
    /\ \E i \in MediaPushes : last.out[i].buf = last.in

MagicValid(buf) == ReadU32(buf, 4) = ZRTP_MAGIC

CrcValid(buf) ==
    ReadU32(buf, Len(buf) - CRC_SIZE)
        = zrtp_EndCksum(zrtp_GenerateCksum(buf, Len(buf) - CRC_SIZE))

\* C5: a ZRTP candidate is handed to zrtp_processZrtpMessage, or changes
\* peerSSRC, only if enableZrtp is set and its magic cookie and its CRC are
\* valid; a candidate with a wrong magic cookie or a wrong CRC causes no
\* call of the engine and no push, and leaves peerSSRC, started and the
\* four context pointers as they were.
C5_CandidateChecks ==
    CandidateCame =>
        /\ (MessagesProcessed # {} \/ zrtp.peerSSRC # last.pre.peerSSRC) =>
              last.pre.enableZrtp /\ MagicValid(last.in) /\ CrcValid(last.in)
        /\ ~(MagicValid(last.in) /\ CrcValid(last.in)) =>
              /\ EngineCalls = {}
              /\ AllPushes = {}
              /\ zrtp.peerSSRC = last.pre.peerSSRC
              /\ zrtp.started = last.pre.started
              /\ zrtp.srtpReceive = last.pre.srtpReceive
              /\ zrtp.srtcpReceive = last.pre.srtcpReceive
              /\ zrtp.srtpSend = last.pre.srtpSend
              /\ zrtp.srtcpSend = last.pre.srtcpSend

\* a candidate with a valid magic cookie and a wrong CRC has come in while
\* ZRTP was enabled and not started, and only the warning went out
C5_Witness ==
    /\ CandidateCame
    /\ last.pre.enableZrtp
    /\ ~last.pre.started
    /\ MagicValid(last.in)
    /\ ~CrcValid(last.in)
    /\ Len(last.out) = 1
    /\ last.out[1].sub = "zrtp_WarningCRCmismatch"
    /\ zrtp = last.pre

\* master key and salt of an SRTP and of an SRTCP context
KeysOf(ctx) == <<ctx.srtp[1].key, ctx.srtp[1].salt>>

KeysOfCtrl(ctx) == <<ctx.srtcp[1].key, ctx.srtcp[1].salt>>

\* the peer's filter, given the same secrets with the other role, once
\* its engine has made them ready for the part
PeerReady(r, part) ==
    zrtp_srtpSecretsReady([z |-> [gst_zrtp_filter_init EXCEPT !.localSSRC = PeerSsrc],
                           out |-> <<>>, rc |-> GST_FLOW_OK],
                          PeerSecret(r), part).z

\* C15: an Initiator's sender contexts hold the initiator key and salt and
\* its receiver contexts the responder key and salt, a Responder's the
\* reverse; the SRTP and the SRTCP context of one direction hold the same
\* key and salt; and each side's sender key and salt are the receiver key
\* and salt of a peer that was given the same secrets with the other role.
C15_ComplementaryKeys ==
    LET sec   == SrtpSecret(role)
        init  == <<sec.keyInitiator, sec.saltInitiator>>
        resp  == <<sec.keyResponder, sec.saltResponder>>
    IN  /\ zrtp.srtpSend # <<>> =>
              /\ KeysOf(zrtp.srtpSend[1]) = IF role = Initiator THEN init ELSE resp
              /\ zrtp.srtcpSend # <<>>
              /\ KeysOfCtrl(zrtp.srtcpSend[1]) = KeysOf(zrtp.srtpSend[1])
              /\ KeysOf(PeerReady(role, ForReceiver).srtpReceive[1])
                    = KeysOf(zrtp.srtpSend[1])
              /\ KeysOfCtrl(PeerReady(role, ForReceiver).srtcpReceive[1])
                    = KeysOfCtrl(zrtp.srtcpSend[1])
        /\ zrtp.srtpReceive # <<>> =>
              /\ KeysOf(zrtp.srtpReceive[1]) = IF role = Initiator THEN resp ELSE init
              /\ zrtp.srtcpReceive # <<>>
              /\ KeysOfCtrl(zrtp.srtcpReceive[1]) = KeysOf(zrtp.srtpReceive[1])
              /\ KeysOf(PeerReady(role, ForSender).srtpSend[1])
                    = KeysOf(zrtp.srtpReceive[1])
              /\ KeysOfCtrl(PeerReady(role, ForSender).srtcpSend[1])
                    = KeysOfCtrl(zrtp.srtcpReceive[1])
        /\ init # resp

C15_Witness ==
    /\ role = Responder
    /\ zrtp.srtpSend # <<>>
    /\ zrtp.srtpReceive # <<>>
    /\ KeysOf(zrtp.srtpSend[1]) = <<3, 4>>
    /\ KeysOf(zrtp.srtpReceive[1]) = <<1, 2>>
    /\ KeysOfCtrl(zrtp.srtcpSend[1]) # KeysOfCtrl(zrtp.srtcpReceive[1])

\* the callbacks the engine made in the handler that has just run
Callbacks ==
    {last.out[i].what : i \in {j \in 1..Len(last.out) : last.out[j].ev = "callback"}}

\* the context pointers of a part: SRTP and SRTCP
PartOf(z, part) ==
    IF part = ForSender THEN <<z.srtpSend, z.srtcpSend>>
    ELSE <<z.srtpReceive, z.srtcpReceive>>

OtherPart(part) == IF part = ForSender THEN ForReceiver ELSE ForSender

ReadyFor(part) == IF part = ForSender THEN "readySend" ELSE "readyRecv"

OffFor(part) == IF part = ForSender THEN "offSend" ELSE "offRecv"

\* C16: the four context pointers are NULL after construction; when
\* zrtp_srtpSecretsReady for a part has completed both pointers of the part
\* are non-NULL, when zrtp_srtpSecretsOff for a part has completed both are
\* NULL, and in either case the pointers of the other part are what they
\* were; without such a callback no pointer becomes NULL or non-NULL.
C16_ContextLifecycle ==
    /\ PartOf(gst_zrtp_filter_init, ForSender) = <<<<>>, <<>>>>
    /\ PartOf(gst_zrtp_filter_init, ForReceiver) = <<<<>>, <<>>>>
    /\ \A part \in {ForSender, ForReceiver} :
          /\ ReadyFor(part) \in Callbacks =>
                /\ PartOf(zrtp, part)[1] # <<>>
                /\ PartOf(zrtp, part)[2] # <<>>
                /\ PartOf(zrtp, OtherPart(part)) = PartOf(last.pre, OtherPart(part))
          /\ OffFor(part) \in Callbacks =>
                /\ PartOf(zrtp, part) = <<<<>>, <<>>>>
                /\ PartOf(zrtp, OtherPart(part)) = PartOf(last.pre, OtherPart(part))
          /\ (last # NoCall /\ Callbacks \cap {ReadyFor(part), OffFor(part)} = {}) =>
                \A i \in 1..2 :
                    (PartOf(zrtp, part)[i] = <<>>) = (PartOf(last.pre, part)[i] = <<>>)

C16_Witness ==
    /\ "offRecv" \in Callbacks
    /\ last.pre.srtpReceive # <<>>
    /\ last.pre.srtcpReceive # <<>>
    /\ last.pre.srtpSend # <<>>
    /\ zrtp.srtpReceive = <<>>
    /\ zrtp.srtcpReceive = <<>>
    /\ zrtp.srtpSend # <<>>
    /\ zrtp.srtcpSend # <<>>

\* the unprotect calls of the handler that has just run that reported an
\* authentication failure (-1) or a replay (-2)
FailedUnprotects ==
    {i \in 1..Len(last.out) :
        /\ last.out[i].ev = "call"
        /\ last.out[i].what \in {"zsrtp_unprotect", "zsrtp_unprotectCtrl"}
        /\ last.out[i].n \in {-1, -2}}

\* C20: when zsrtp_unprotect or zsrtp_unprotectCtrl reports a replay or an
\* authentication failure, the handler pushes no media buffer, releases the
\* packet once and emits the status signal with the matching warning.
C20_FailureDropsAndWarns ==
    \A i \in FailedUnprotects :
        /\ MediaPushes = {}
        /\ Cardinality({j \in 1..Len(last.out) : last.out[j].ev = "unref"}) = 1
        /\ \E j \in 1..Len(last.out) :
              /\ last.out[j].ev = "signal"
              /\ last.out[j].what = "status"
              /\ last.out[j].sub = IF last.out[i].n = -1
                                   THEN "zrtp_WarningSRTPauthError"
                                   ELSE "zrtp_WarningSRTPreplayError"

\* the peer's packets 0 .. MaxPeerPkts, the last of which the filter has
\* never been given
LaterSrtp ==
    [r \in {Initiator, Responder} |->
        [k \in 0..MaxPeerPkts |->
            zsrtp_protect(PeerFilter(r).srtpSend[1],
                          PlainRtp(PeerStream("srtp"), k)).buf]]

LaterSrtcp ==
    [r \in {Initiator, Responder} |->
        [k \in 0..MaxPeerPkts |->
            zsrtp_protectCtrl([PeerFilter(r).srtcpSend[1] EXCEPT !.srtcpIndex = k],
                              PlainRtcp(PeerStream("srtcp"), k)).buf]]

\* the handler pushes buf on pad
PushesOn(w, pad, buf) ==
    \E i \in 1..Len(w.out) :
        w.out[i].ev = "push" /\ w.out[i].what = pad /\ w.out[i].buf = buf

\* C21: a packet that fails the replay or the authentication check on the
\* RTP or RTCP receive path leaves the four crypto contexts as they were,
\* and every packet of the peer that would have been accepted before it is
\* still unprotected and pushed upstream after it.
C21_FailureKeepsSession ==
    FailedUnprotects # {} =>
        /\ \A part \in {ForSender, ForReceiver} :
              PartOf(zrtp, part) = PartOf(last.pre, part)
        /\ last.op = "chain_rtp_up" =>
              \A k \in 0..MaxPeerPkts :
                  LET u == zsrtp_unprotect(last.pre.srtpReceive[1], LaterSrtp[role][k])
                  IN  u.rc = 1 =>
                        PushesOn(gst_zrtp_filter_chain_rtp_up(
                                     World(zrtp), LaterSrtp[role][k], "none", GST_FLOW_OK),
                                 "recv_rtp_src", u.buf)
        /\ last.op = "chain_rtcp_up" =>
              \A k \in 0..MaxPeerPkts :
                  LET u == zsrtp_unprotectCtrl(last.pre.srtcpReceive[1],
                                               LaterSrtcp[role][k])
                  IN  u.rc = 1 =>
                        PushesOn(gst_zrtp_filter_chain_rtcp_up(
                                     World(zrtp), LaterSrtcp[role][k], GST_FLOW_OK),
                                 "recv_rtcp_src", u.buf)

C21_Witness ==
    /\ last.op = "chain_rtcp_up"
    /\ \E i \in FailedUnprotects : last.out[i].n = -2
    /\ last.in = LaterSrtcp[role][0]
    /\ zsrtp_unprotectCtrl(zrtp.srtcpReceive[1], LaterSrtcp[role][MaxPeerPkts]).rc = 1
    /\ PushesOn(gst_zrtp_filter_chain_rtcp_up(World(zrtp), LaterSrtcp[role][MaxPeerPkts],
                                              GST_FLOW_OK),
                "recv_rtcp_src", PlainRtcp(PeerStream("srtcp"), MaxPeerPkts))

\* the handler that has just run got a ZRTP candidate, with ZRTP enabled,
\* whose magic cookie or checksum is wrong
CandidateRejected ==
    /\ CandidateCame
    /\ last.pre.enableZrtp
    /\ last.pre.zrtpCtx # <<>>
    /\ ~MagicValid(last.in) \/ ~CrcValid(last.in)

\* C22: a chain function that drops a packet because unprotect reported a
\* replay or an authentication failure, or because a ZRTP candidate failed
\* the magic-cookie or the checksum test, does not return GST_FLOW_ERROR.
C22_DropIsNotFatal ==
    (FailedUnprotects # {} \/ CandidateRejected) => last.rc # GST_FLOW_ERROR

\* the ZRTP packets the handler that has just run sent, as positions in
\* last.out
ZrtpPushes == {i \in Pushes("send_rtp_src") : ByteAt(last.out[i].buf, 0) \div 16 = 1}

\* a peer filter with ZRTP initialized and enabled
PeerListening == zrtp_initialize(World(gst_zrtp_filter_init), <<>>, TRUE).z

\* what the engine of the filter z is handed when buf arrives
HandedToEngine(z, buf) ==
    LET w == gst_zrtp_filter_chain_rtp_up(World(z), buf, "none", GST_FLOW_OK)
    IN  {w.out[i].buf : i \in {j \in 1..Len(w.out) :
                                  /\ w.out[j].ev = "engine"
                                  /\ w.out[j].what = "zrtp_processZrtpMessage"}}

\* C23: a packet sent by zrtp_sendDataZRTP has byte 0 = 0x10, byte 1 = 0,
\* the sequence number, the magic cookie and localSSRC in network byte
\* order, the message, and the CRC over all bytes before it; given as it is
\* to the recv_rtp_sink of a ZRTP-enabled peer it passes the magic and the
\* CRC test, sets the peer's peerSSRC to the sender's localSSRC and hands
\* the same message bytes to the peer's engine.
C23_FramingRoundTrip ==
    \A i \in ZrtpPushes :
        LET pkt  == last.out[i].buf
            body == Len(ZrtpMessage) - CRC_SIZE
            seq  == last.pre.zrtpSeq + Cardinality({j \in ZrtpPushes : j < i})
            peer == gst_zrtp_filter_chain_rtp_up(World(PeerListening), pkt, "none",
                                                 GST_FLOW_OK)
        IN  /\ Len(pkt) = 12 + Len(ZrtpMessage)
            /\ pkt[1] = B(16)
            /\ pkt[2] = B(0)
            /\ Sub(pkt, 2, 2) = <<B((seq \div 256) % 256), B(seq % 256)>>
            /\ Sub(pkt, 4, 4) = <<B(90), B(82), B(84), B(80)>>
            /\ Sub(pkt, 8, 4) = <<B(0), B(0), B((zrtp.localSSRC \div 256) % 256),
                                 B(zrtp.localSSRC % 256)>>
            /\ Sub(pkt, 12, body) = Sub(ZrtpMessage, 0, body)
            /\ MagicValid(pkt)
            /\ CrcValid(pkt)
            /\ peer.rc = GST_FLOW_OK
            /\ \A j \in 1..Len(peer.out) : peer.out[j].ev # "signal"
            /\ peer.z.peerSSRC = zrtp.localSSRC
            /\ HandedToEngine(PeerListening, pkt) # {}
            /\ \A m \in HandedToEngine(PeerListening, pkt) :
                  Sub(m, 0, body) = Sub(ZrtpMessage, 0, body)

C23_Witness ==
    /\ zrtp.localSSRC = LocalSsrc
    /\ \E i \in ZrtpPushes :
          /\ ReadU16(last.out[i].buf, 2) = 2
          /\ ReadU32(last.out[i].buf, 8) = LocalSsrc
          /\ HandedToEngine(PeerListening, last.out[i].buf) # {}

\* the signals the handler that has just run emitted
Signals == {i \in 1..Len(last.out) : last.out[i].ev = "signal"}

\* C29: on recv_rtp_sink with a receive context installed, a packet that
\* zsrtp_unprotect accepts raises no signal, counts in unprotect and
\* resets unprotect_err to 0; a packet it refuses raises exactly one
\* signal, status (Warning, WarningSRTPauthError) for the result -1 and
\* status (Warning, WarningSRTPreplayError) for the result -2, leaves
\* unprotect as it was and stores the result in unprotect_err.
C29_OneSignalPerDrop ==
    (RtpCame /\ last.pre.srtpReceive # <<>>) =>
        LET u == zsrtp_unprotect(last.pre.srtpReceive[1], last.in)
        IN  /\ u.rc = 1 =>
                  /\ Signals = {}
                  /\ zrtp.unprotect = last.pre.unprotect + 1
                  /\ zrtp.unprotect_err = 0
            /\ u.rc # 1 =>
                  /\ Cardinality(Signals) = 1
                  /\ \A i \in Signals :
                        /\ last.out[i].what = "status"
                        /\ last.out[i].n = MessageSeverity("zrtp_Warning")
                        /\ u.rc = -1 => last.out[i].sub = "zrtp_WarningSRTPauthError"
                        /\ u.rc = -2 => last.out[i].sub = "zrtp_WarningSRTPreplayError"
                  /\ zrtp.unprotect = last.pre.unprotect
                  /\ zrtp.unprotect_err = u.rc

\* a packet has been accepted after one that failed authentication: the
\* error it left is cleared and no signal goes out
C29_Witness ==
    /\ RtpCame
    /\ last.pre.srtpReceive # <<>>
    /\ last.pre.unprotect_err = -1
    /\ zsrtp_unprotect(last.pre.srtpReceive[1], last.in).rc = 1
    /\ zrtp.unprotect = 1
    /\ zrtp.unprotect_err = 0
    /\ Signals = {}

\* the calls of zrtp_startZrtpEngine by the handler that has just run
StartCalls == {i \in EngineCalls : last.out[i].what = "zrtp_startZrtpEngine"}

ChainOps == {"chain_rtp_up", "chain_rtcp_up", "chain_rtp_down", "chain_rtcp_down"}

\* the buffer the chain function that has just run got is one that starts
\* ZRTP: an RTP buffer on recv_rtp_sink or send_rtp_sink, or a ZRTP packet
\* with a valid magic cookie and CRC
StartsZrtp ==
    \/ RtpCame
    \/ last.op = "chain_rtp_down"
    \/ CandidateCame /\ MagicValid(last.in) /\ CrcValid(last.in)

\* C30: a chain function starts the engine, once, and sets started exactly
\* when ZRTP is enabled and not started and its buffer is an RTP buffer on
\* recv_rtp_sink or send_rtp_sink or a ZRTP packet with valid magic and
\* CRC; in every other case (started already, ZRTP disabled, an RTCP
\* buffer, a ZRTP candidate that fails a test) it makes no start call and
\* leaves started as it was.
C30_AutomaticStart ==
    last.op \in ChainOps =>
        IF last.pre.enableZrtp /\ ~last.pre.started /\ StartsZrtp
        THEN /\ Cardinality(StartCalls) = 1
             /\ zrtp.started
        ELSE /\ StartCalls = {}
             /\ zrtp.started = last.pre.started

\* the peer's ZRTP packet has started a filter whose engine was initialized
\* and not yet started
C30_Witness ==
    /\ CandidateCame
    /\ MagicValid(last.in)
    /\ CrcValid(last.in)
    /\ last.pre.zrtpCtx[1].initialized
    /\ ~last.pre.zrtpCtx[1].started
    /\ ~last.pre.started
    /\ zrtp.started
    /\ zrtp.zrtpCtx[1].started
    /\ Cardinality(StartCalls) = 1

\* the releases of a buffer by the handler that has just run
Unrefs == {i \in 1..Len(last.out) : last.out[i].ev = "unref"}

\* C32: a chain function consumes the buffer it was handed exactly once:
\* it pushes it to a source pad once or releases it once, never both and
\* never neither.  (The ZRTP packets the engine sends in the same call are
\* buffers of their own.)
C32_ConsumedOnce ==
    last.op \in ChainOps =>
        Cardinality(MediaPushes) + Cardinality(Unrefs) = 1

\* C38: the ZRTP engine is started only after it has been initialized: in
\* every reachable state in which started is set, zrtp_initializeZrtpEngine
\* has been called on the context, and every call of zrtp_startZrtpEngine
\* is made on a context that has been initialized, in whatever order the
\* application sets enable, start and initialize and the buffers arrive.
C38_StartedAfterInitialized ==
    /\ (zrtp.started /\ zrtp.zrtpCtx # <<>>) => zrtp.zrtpCtx[1].initialized
    /\ (last # NoCall /\ StartCalls # {} /\ last.pre.zrtpCtx # <<>>) =>
          last.pre.zrtpCtx[1].initialized

\* ------------------------------------------------------------- SpecSrtp
\* One media stream between two peers holding the same master key and salt:
\* the sender's RTP session numbers its packets consecutively (RFC 3550) and
\* hands each to zsrtp_protect / zsrtp_protectCtrl; the network delivers it
\* to the receiver's zsrtp_unprotect / zsrtp_unprotectCtrl, and an attacker
\* on the path re-submits packets already delivered and submits altered
\* copies of the packet in flight.

InitSrtp ==
    /\ stream \in [proto : {"srtp", "srtcp"}, ssrc : {StreamSsrc},
                    startSeq : StartSeqs, cc : CsrcCounts]
    /\ stream.proto = "srtcp" => stream.startSeq = 1000 /\ stream.cc = 0
    /\ stream.proto = "srtp" => (stream.cc = 1 <=> stream.startSeq = 65534)
    /\ nSent = 0
    /\ sentIdx = <<>>
    /\ wire = <<>>
    /\ sndCtx = NewSender(stream)
    /\ rcvCtx = NewSender(stream)
    /\ obs = NoObs
    /\ zrtp = gst_zrtp_filter_init
    /\ role = Initiator
    /\ last = NoCall
    /\ IdleConc

\* the RTP session hands its next packet to the send path
SrtpSend ==
    /\ wire = <<>>
    /\ nSent < MaxPkts
    /\ \E r \in {Protect(stream, sndCtx, Plain(stream, nSent))} :
           /\ sentIdx' = Append(sentIdx, SenderIdx(stream, sndCtx))
           /\ sndCtx' = r.ctx
           /\ wire' = <<r.buf>>
           /\ obs' = Observe("protect", nSent, Plain(stream, nSent), sndCtx, r)
    /\ nSent' = nSent + 1
    /\ UNCHANGED <<stream, rcvCtx, filterVars, concVars>>

\* the network delivers the packet in flight
SrtpDeliver ==
    /\ wire # <<>>
    /\ \E r \in {Unprotect(stream, rcvCtx, wire[1])} :
           /\ rcvCtx' = r.ctx
           /\ obs' = Observe("deliver", nSent - 1, wire[1], rcvCtx, r)
    /\ wire' = <<>>
    /\ UNCHANGED <<stream, nSent, sentIdx, sndCtx, filterVars, concVars>>

Delivered == IF wire = <<>> THEN nSent ELSE nSent - 1

\* the attacker submits one packet between two steps of the stream
AttackerIdle == obs.op \notin {"replay", "tamper"}

\* the attacker submits again a packet that was delivered before
SrtpReplay ==
    /\ AttackerIdle
    /\ \E k \in 0..(Delivered - 1) :
      \E in \in {Protected(k)} :
        \E r \in {Unprotect(stream, rcvCtx, in)} :
            /\ rcvCtx' = r.ctx
            /\ obs' = Observe("replay", k, in, rcvCtx, r)
            /\ UNCHANGED <<stream, nSent, sentIdx, wire, sndCtx, filterVars, concVars>>

FlipBit(c, bit) == B(Xor(Val(c), bit))

Bits == {1, 2, 4, 8, 16, 32, 64, 128}

\* the bytes before the SRTCP index word and the tag: header and ciphertext
BodyLen(st, pkt) ==
    Len(pkt) - AuthTagLen - (IF st.proto = "srtp" THEN 0 ELSE 4)

\* the attacker submits the packet in flight with one header or ciphertext
\* bit flipped; the packet itself stays in flight
SrtpTamper ==
    /\ AttackerIdle
    /\ wire # <<>>
    /\ \E pos \in 0..(BodyLen(stream, wire[1]) - 1), bit \in Bits :
      \E in \in {[wire[1] EXCEPT ![pos + 1] = FlipBit(@, bit)]} :
        \E r \in {Unprotect(stream, rcvCtx, in)} :
            /\ rcvCtx' = r.ctx
            /\ obs' = Observe("tamper", nSent - 1, in, rcvCtx, r)
                          @@ [pos |-> pos, bit |-> bit]
    /\ UNCHANGED <<stream, nSent, sentIdx, wire, sndCtx, filterVars, concVars>>

NextSrtp == SrtpSend \/ SrtpDeliver \/ SrtpReplay \/ SrtpTamper

SpecSrtp == InitSrtp /\ [][NextSrtp]_vars

\* ---------------------------------------------- properties of SpecSrtp

UnprotectOps == {"deliver", "replay", "tamper"}

\* the place of a library call in the order replay check, index recovery,
\* tag verification, decryption, context update
StepOf(call) ==
    CASE call = "checkReplay" -> 1
      [] call = "guessIndex" -> 2
      [] call \in {"srtpAuthenticate", "srtcpAuthenticate"} -> 3
      [] call \in {"srtpEncrypt", "srtcpEncrypt"} -> 4
      [] call = "update" -> 5

\* the packet o.in passes the replay check of the context o.pre
ReplayChecked(o) ==
    IF stream.proto = "srtp"
    THEN checkReplay(o.pre.srtp[1], gst_rtp_buffer_get_seq(o.in))
    ELSE checkReplayCtrl(o.pre.srtcp[1],
             ClearBit31(ReadU32(o.in, Len(o.in) - AuthTagLen - 4)))

\* the tag at the end of o.in is the MAC of what precedes it
TagVerified(o) ==
    IF stream.proto = "srtp"
    THEN LET pcc == o.pre.srtp[1]
             n   == Len(o.in) - pcc.tagLength
         IN  Sub(o.in, n, pcc.tagLength)
                 = srtpAuthenticate(pcc, o.in, n,
                                    guessRoc(pcc, gst_rtp_buffer_get_seq(o.in)))
    ELSE LET pcc == o.pre.srtcp[1]
             n   == Len(o.in) - pcc.tagLength - 4
         IN  Sub(o.in, n + 4, pcc.tagLength)
                 = srtcpAuthenticate(pcc, o.in, n, ReadU32(o.in, n))

\* C7: zsrtp_unprotect and zsrtp_unprotectCtrl call the library in the order
\* replay check, index recovery, tag verification, decryption, context
\* update; the buffer is decrypted only when the tag has verified, and the
\* context is updated only when the replay check and the tag verification
\* have both succeeded.
C7_UnprotectOrder ==
    obs.op \in UnprotectOps =>
        /\ obs.calls # <<>> /\ obs.calls[1] = "checkReplay"
        /\ \A i, j \in DOMAIN obs.calls :
               i < j => StepOf(obs.calls[i]) < StepOf(obs.calls[j])
        /\ obs.out # obs.in => TagVerified(obs)
        /\ obs.post # obs.pre => ReplayChecked(obs) /\ TagVerified(obs)
        /\ (\E i \in DOMAIN obs.calls : StepOf(obs.calls[i]) >= 4) => obs.rc = 1

\* a packet with a payload has gone through all five steps of zsrtp_unprotect
C7_Witness ==
    /\ obs.op = "deliver" /\ stream.proto = "srtp" /\ obs.rc = 1
    /\ obs.calls = <<"checkReplay", "guessIndex", "srtpAuthenticate",
                     "srtpEncrypt", "update">>
    /\ obs.out # Sub(obs.in, 0, Len(obs.out))
    /\ obs.post # obs.pre

\* C8: a packet that the receive context has accepted before, be it still
\* inside the replay window or already behind it, is rejected with -2 when
\* it is submitted again, and neither the context nor the buffer changes.
C8_ReplayRejected ==
    obs.op = "replay" =>
        obs.rc = -2 /\ obs.post = obs.pre /\ obs.out = obs.in

\* an SRTP packet that has fallen behind the replay window is rejected
C8_Witness ==
    /\ obs.op = "replay" /\ stream.proto = "srtp" /\ obs.rc = -2
    /\ (Delivered - 1) - obs.k >= REPLAY_WINDOW_SIZE
    /\ obs.post = obs.pre

\* C9: a protected packet with one header or ciphertext bit flipped is
\* rejected with -1 and the replay state of the context is left as it was.
C9_TamperFailsAuth ==
    obs.op = "tamper" => obs.rc = -1 /\ obs.post = obs.pre

\* C9 as it holds: such a packet is never accepted and never changes the
\* context or the buffer; it is rejected with -1, or with -2 when the bit is
\* one of the RTP sequence number and the altered number fails the replay
\* check, which comes before the tag is looked at.
C9_TamperRejected ==
    obs.op = "tamper" =>
        /\ obs.rc \in {-1, -2}
        /\ obs.post = obs.pre /\ obs.out = obs.in
        /\ obs.rc = -2 <=> ~ReplayChecked(obs)
        /\ obs.rc = -2 => stream.proto = "srtp" /\ obs.pos \in {2, 3}

\* a flipped ciphertext bit is rejected by the tag comparison
C9_Witness ==
    /\ obs.op = "tamper" /\ obs.rc = -1 /\ obs.post = obs.pre
    /\ obs.pos >= BodyLen(stream, obs.in) - 1

\* the packet indices a receive context holds as accepted
Accepted(cc) ==
    IF cc.seqNumSet
    THEN {cc.roc * SeqMod + cc.s_l - d : d \in cc.replay_window}
    ELSE {}

\* C10: a packet protected by the sender and delivered to the receiver,
\* which holds the same key and salt, is accepted and comes out as the
\* plaintext packet, byte for byte and in length; the receiver's replay
\* state is what it was plus the index of this packet.
C10_RoundTrip ==
    (obs.op = "deliver" /\ stream.proto = "srtp") =>
        LET P    == Plain(stream, obs.k)
            idx  == sentIdx[obs.k + 1] * SeqMod + gst_rtp_buffer_get_seq(P)
            pre  == obs.pre.srtp[1]
            post == obs.post.srtp[1]
        IN  /\ obs.rc = 1
            /\ obs.out = P /\ Len(obs.out) = Len(P)
            /\ post.seqNumSet /\ post.roc * SeqMod + post.s_l = idx
            /\ Accepted(post)
                   = {i \in Accepted(pre) \cup {idx} : idx - i < REPLAY_WINDOW_SIZE}
            /\ [post EXCEPT !.roc = 0, !.s_l = 0, !.replay_window = {},
                            !.seqNumSet = FALSE]
                   = [pre EXCEPT !.roc = 0, !.s_l = 0, !.replay_window = {},
                                 !.seqNumSet = FALSE]

\* a packet with a payload makes the round trip after the sequence number
\* has wrapped
C10_Witness ==
    /\ obs.op = "deliver" /\ stream.proto = "srtp" /\ obs.rc = 1
    /\ obs.out = Plain(stream, obs.k)
    /\ PayloadOf(obs.k) # <<>>
    /\ obs.post.srtp[1].roc = 1

\* C12: zsrtp_protect grows the packet by exactly the tag length (no MKI
\* bytes), a successful zsrtp_unprotect shrinks it by exactly tagLength +
\* mkiLength, and the packet delivered after its protect has the length it
\* had before.
C12_LengthChange ==
    stream.proto = "srtp" =>
    /\ obs.op = "protect" =>
          /\ obs.rc = 1
          /\ Len(obs.out) = Len(obs.in) + obs.pre.srtp[1].tagLength
    /\ (obs.op \in UnprotectOps /\ obs.rc = 1) =>
          Len(obs.out) = Len(obs.in) - (obs.pre.srtp[1].tagLength
                                          + obs.pre.srtp[1].mkiLength)
    /\ (obs.op = "deliver" /\ obs.rc = 1) =>
          Len(obs.out) = Len(Plain(stream, obs.k))

C12_Witness ==
    /\ stream.proto = "srtp"
    /\ obs.op = "deliver"
    /\ obs.rc = 1
    /\ obs.k > 0
    /\ Len(obs.in) = Len(Plain(stream, obs.k)) + AuthTagLen
    /\ Len(obs.out) = Len(Plain(stream, obs.k))
    /\ Len(obs.out) > gst_rtp_buffer_get_header_len(obs.out)

\* (a + k) mod 2^31 for a in 0 .. 2^31 - 1 and 0 <= k < 2^31
AddMod31(a, k) ==
    IF k > 2147483647 - a THEN (k - (2147483647 - a)) - 1 ELSE a + k

\* the 32-bit word w | 0x80000000 of an index below 2^31, as a signed value
WithEFlag(w) == (w - 2147483647) - 1

\* the four bytes of index | 0x80000000 in network byte order
IndexWord(index) ==
    <<B(128 + (index \div 16777216)), B((index \div 65536) % 256),
      B((index \div 256) % 256), B(index % 256)>>

\* C14: for an RTCP packet of length L zsrtp_protectCtrl leaves bytes 0..7
\* as they are, encrypts bytes 8..L-1 only, stores the big-endian SRTCP
\* index word at offset L and the tag at offset L+4, the output being
\* L + 4 + tagLength bytes long; zsrtp_unprotectCtrl of that output with the
\* matching context returns the original L bytes.
C14_SrtcpFraming ==
    stream.proto = "srtcp" =>
    /\ obs.op = "protect" =>
          LET L   == Len(obs.in)
              pcc == obs.pre.srtcp[1]
              idx == obs.pre.srtcpIndex
          IN  /\ obs.rc = 1
              /\ Len(obs.out) = L + 4 + pcc.tagLength
              /\ Sub(obs.out, 0, 8) = Sub(obs.in, 0, 8)
              /\ Sub(obs.out, 0, L)
                    = CryptRange(pcc, obs.in, 8, L - 8, idx, ReadU32(obs.in, 4))
              /\ Sub(obs.out, L, 4) = IndexWord(idx)
              /\ Sub(obs.out, L + 4, pcc.tagLength)
                    = [i \in 1..pcc.tagLength |->
                          <<i>> \o Digest(pcc, obs.out, L, WithEFlag(idx))]
    /\ obs.op = "deliver" =>
          /\ obs.in = Protected(obs.k)
          /\ obs.rc = 1
          /\ obs.out = Plain(stream, obs.k)

C14_Witness ==
    /\ stream.proto = "srtcp"
    /\ obs.op = "deliver"
    /\ obs.rc = 1
    /\ obs.k > 0
    /\ Len(obs.out) > 8
    /\ Len(obs.in) = Len(obs.out) + 4 + AuthTagLen
    /\ Sub(obs.in, 8, Len(obs.out) - 8) # Sub(obs.out, 8, Len(obs.out) - 8)
    /\ obs.out = Plain(stream, obs.k)

\* -------------------------------------------------------------- SpecRoc
\* One SRTP stream as in SpecSrtp, but not every packet the RTP session has
\* numbered reaches zsrtp_protect: an element between the session and the
\* filter may drop one.

MaxSkips == 1

InitRoc ==
    /\ InitSrtp
    /\ stream.proto = "srtp"

Skipped == {i \in DOMAIN sentIdx : sentIdx[i] = -1}

\* the packet the session has numbered nSent never reaches the filter
RtpSkip ==
    /\ wire = <<>>
    /\ nSent < MaxPkts
    /\ Cardinality(Skipped) < MaxSkips
    /\ sentIdx' = Append(sentIdx, -1)
    /\ nSent' = nSent + 1
    /\ obs' = [NoObs EXCEPT !.op = "skip"]
    /\ UNCHANGED <<stream, wire, sndCtx, rcvCtx, filterVars, concVars>>

NextRoc == SrtpSend \/ SrtpDeliver \/ RtpSkip

SpecRoc == InitRoc /\ [][NextRoc]_vars

\* ----------------------------------------------- properties of SpecRoc

\* the number of times the sequence number has gone from 0xFFFF to 0x0000
\* when the session numbers packet k
Crossings(k) == (stream.startSeq + k) \div SeqMod

\* C11: in any sequence of zsrtp_protect calls on one send context every
\* packet is indexed and authenticated with as many rollovers as the
\* sequence number has crossed from 0xFFFF to 0x0000 before it (the packet
\* 0xFFFF itself with the old count, the context holding the new count
\* after it), and the receiver's zsrtp_unprotect accepts the packet and
\* holds the same count.
C11_RocCountsCrossings ==
    stream.proto = "srtp" =>
    /\ obs.op = "protect" =>
          /\ obs.pre.srtp[1].roc = Crossings(obs.k)
          /\ obs.post.srtp[1].roc = Crossings(obs.k + 1)
    /\ obs.op = "deliver" =>
          /\ obs.rc = 1
          /\ obs.post.srtp[1].roc = Crossings(obs.k)

\* ------------------------------------------------------------- SpecCtrl
\* One SRTCP stream between a send and a receive context.  The send context
\* is followed from its creation, and from the state it is in after
\* 2^31 - 3 calls of zsrtp_protectCtrl; stream.startSeq is the number of
\* calls made before the first step.

FirstIdxs == {0, 2147483645}

InitCtrl ==
    /\ stream \in [proto : {"srtcp"}, ssrc : {StreamSsrc},
                    startSeq : FirstIdxs, cc : {0}]
    /\ nSent = 0
    /\ sentIdx = <<>>
    /\ wire = <<>>
    /\ sndCtx = [NewSender(stream) EXCEPT !.srtcpIndex = stream.startSeq]
    /\ rcvCtx = NewSender(stream)
    /\ obs = NoObs
    /\ zrtp = gst_zrtp_filter_init
    /\ role = Initiator
    /\ last = NoCall
    /\ IdleConc

NextCtrl == SrtpSend \/ SrtpDeliver

SpecCtrl == InitCtrl /\ [][NextCtrl]_vars

\* ---------------------------------------------- properties of SpecCtrl

\* C13: the SRTCP index of a send context is 0 at creation and goes up by
\* one per zsrtp_protectCtrl call modulo 2^31: the k-th protected packet
\* carries the word ((k-1) mod 2^31) | 0x80000000 after its payload, and
\* the stored index stays within 0 .. 2^31 - 1.
C13_SrtcpIndex ==
    /\ zsrtp_CreateWrapperCtrl(StreamSsrc, MasterKey, MasterSalt,
                               AuthTagLen).srtcpIndex = 0
    /\ sndCtx.srtcpIndex = AddMod31(stream.startSeq, nSent)
    /\ sndCtx.srtcpIndex >= 0
    /\ obs.op = "protect" =>
          /\ obs.rc = 1
          /\ ReadU32(obs.out, Len(obs.in))
                = WithEFlag(AddMod31(stream.startSeq, obs.k))
          /\ ByteAt(obs.out, Len(obs.in)) >= 128
          /\ obs.post.srtcpIndex = AddMod31(obs.pre.srtcpIndex, 1)

C13_Witness ==
    /\ obs.op = "protect"
    /\ obs.pre.srtcpIndex = 2147483647
    /\ obs.post.srtcpIndex = 0
    /\ ReadU32(obs.out, Len(obs.in)) = -1

\* ------------------------------------------------------------ SpecTimer
\* The filter, its engine and the clock, from construction to finalize:
\* the application sets properties, ZRTP messages arrive, clock entries
\* fire, and the engine arms or cancels its timer when it is called.

MaxArmed == 2

TimerReactions == {"none", "timerOn", "timerOff"}

TimerBounded(z) ==
    /\ z.zrtpSeq <= MaxZrtpSeq
    /\ Cardinality(z.sysclock) <= MaxArmed

\* the filter has been finalized
TornDown(z) == z.zrtpCtx = <<>>

TimerSetProperty ==
    /\ last = NoCall
    /\ ~TornDown(zrtp)
    /\ \E prop_id \in {"enable", "local-ssrc", "initialize", "start"}, value \in {0, 1} :
      \E v \in {IF prop_id = "local-ssrc" THEN LocalSsrc ELSE value} :
        \E w \in {gst_zrtp_filter_set_property(World(zrtp), prop_id, v)} :
            /\ TimerBounded(w.z)
            /\ zrtp' = w.z
            /\ last' = Ran(prop_id, <<B(v % 256)>>, w)
    /\ UNCHANGED <<role, srtpVars, concVars>>

\* a ZRTP message arrives on recv_rtp_sink
TimerMessage ==
    /\ last = NoCall
    /\ ~TornDown(zrtp)
    /\ \E in \in GoodZrtp, r \in TimerReactions :
        \E w \in {gst_zrtp_filter_chain_rtp_up(World(zrtp), in, r, GST_FLOW_OK)} :
            /\ TimerBounded(w.z)
            /\ zrtp' = w.z
            /\ last' = Ran("chain_rtp_up", in, w)
    /\ UNCHANGED <<role, srtpVars, concVars>>

\* an entry of the clock reaches its time, whatever became of the filter
TimerFire ==
    /\ last = NoCall
    /\ \E id \in zrtp.sysclock, r \in TimerReactions :
        \E w \in {timer_callback(World(zrtp), id, r)} :
            /\ TimerBounded(w.z)
            /\ zrtp' = w.z
            /\ last' = Ran("timer_callback", <<B(id)>>, w)
    /\ UNCHANGED <<role, srtpVars, concVars>>

\* the last reference to the filter is dropped
Finalize ==
    /\ last = NoCall
    /\ ~TornDown(zrtp)
    /\ \E w \in {gst_zrtp_filter_finalize(World(zrtp))} :
            /\ zrtp' = w.z
            /\ last' = Ran("finalize", <<>>, w)
    /\ UNCHANGED <<role, srtpVars, concVars>>

NextTimer == TimerSetProperty \/ TimerMessage \/ TimerFire \/ Finalize \/ Return

SpecTimer == Init /\ [][NextTimer]_vars

\* --------------------------------------------- properties of SpecTimer

\* C17: at most one timer is outstanding per filter at any time, and a
\* timer that was armed before the newest one never fires: the entry that
\* fires is the one the filter's handle refers to.
C17_SingleTimer ==
    /\ Cardinality(zrtp.sysclock) <= 1
    /\ last.op = "timer_callback" => last.in = <<B(last.pre.clockId)>>

\* C18: timer_callback clears clockId before it delivers the timeout, so a
\* timer the engine arms while handling it stays armed; if the engine arms
\* none, no timer is armed afterwards and zrtp_cancelTimer changes nothing.
C18_FiredTimerCleared ==
    last.op = "timer_callback" =>
        /\ "timerOn" \in Callbacks =>
              zrtp.clockId # 0 /\ zrtp.sysclock = {zrtp.clockId}
        /\ "timerOn" \notin Callbacks =>
              /\ zrtp.clockId = 0
              /\ zrtp.sysclock = {}
              /\ zrtp_cancelTimer(World(zrtp)).z = zrtp

\* C19: once the filter is finalized no timer is armed, and timer_callback
\* is never invoked on a finalized filter.
C19_TeardownCancels ==
    /\ TornDown(zrtp) => zrtp.sysclock = {} /\ zrtp.clockId = 0
    /\ last.op = "timer_callback" => ~TornDown(last.pre)

\* ------------------------------------------------------------ SpecFrame
\* A ZRTP packet of the peer has one byte changed on its way to
\* recv_rtp_sink, while the application sets properties and unchanged
\* ZRTP packets arrive.

FlipMasks == {1, 128, 255}

\* pkt with the bits of mask flipped in the byte at offset off
Flipped(pkt, off, mask) == [pkt EXCEPT ![off + 1] = B(Xor(Val(@), mask))]

FlippedZrtp ==
    {Flipped(pkt, off, mask) :
        pkt \in GoodZrtp, off \in 0..(12 + Len(ZrtpMessage) - 1), mask \in FlipMasks}

\* an unchanged ZRTP packet arrives on recv_rtp_sink
FrameMessage ==
    /\ last = NoCall
    /\ \E in \in GoodZrtp, r \in {"none", "readyRecv", "offRecv"} :
        \E w \in {gst_zrtp_filter_chain_rtp_up(World(zrtp), in, r, GST_FLOW_OK)} :
            /\ Bounded(w.z)
            /\ zrtp' = w.z
            /\ last' = Ran("chain_rtp_up", in, w)
    /\ UNCHANGED <<role, srtpVars, concVars>>

\* a ZRTP packet with one byte changed arrives on recv_rtp_sink
FrameFlipped ==
    /\ last = NoCall
    /\ \E in \in FlippedZrtp, r \in {"none", "readyRecv"} :
        \E w \in {gst_zrtp_filter_chain_rtp_up(World(zrtp), in, r, GST_FLOW_OK)} :
            /\ Bounded(w.z)
            /\ zrtp' = w.z
            /\ last' = Ran("chain_rtp_up", in, w)
    /\ UNCHANGED <<role, srtpVars, concVars>>

NextFrame == SetProperty \/ FrameMessage \/ FrameFlipped \/ Return

SpecFrame == Init /\ [][NextFrame]_vars

\* --------------------------------------------- properties of SpecFrame

\* a ZRTP packet with one byte changed has come in to a filter that has
\* ZRTP enabled
FlippedCame ==
    /\ last.op = "chain_rtp_up"
    /\ last.in \in FlippedZrtp
    /\ last.pre.enableZrtp
    /\ last.pre.zrtpCtx # <<>>

CrcWarnings ==
    {i \in 1..Len(last.out) :
        /\ last.out[i].ev = "signal"
        /\ last.out[i].sub = "zrtp_WarningCRCmismatch"}

\* C24 as stated: a framed ZRTP packet with any single byte changed is
\* rejected with the warning WarningCRCmismatch, is not handed to the
\* state machine and is not forwarded upstream.
C24_FlipIsCrcError ==
    FlippedCame =>
        /\ CrcWarnings # {}
        /\ MessagesProcessed = {}
        /\ Pushes("recv_rtp_src") = {}

\* C24: a framed ZRTP packet with a single byte changed is never handed to
\* the state machine and never changes peerSSRC.  While its first byte
\* still has the high nibble 1 it is not forwarded upstream: it is
\* rejected with the warning WarningCRCmismatch when its magic cookie is
\* intact, and dropped with no status signal when the change is in the
\* magic cookie, which is tested before the CRC.  A change of the high
\* nibble of the first byte makes it an RTP buffer, which is forwarded
\* upstream as it came while no receive context is installed.
C24_FlipNeverProcessed ==
    FlippedCame =>
        /\ MessagesProcessed = {}
        /\ zrtp.peerSSRC = last.pre.peerSSRC
        /\ CandidateCame => Pushes("recv_rtp_src") = {}
        /\ (CandidateCame /\ MagicValid(last.in)) =>
              /\ ~CrcValid(last.in)
              /\ Cardinality(CrcWarnings) = 1
              /\ Signals = CrcWarnings
        /\ (CandidateCame /\ ~MagicValid(last.in)) => Signals = {}
        /\ RtpCame => CrcWarnings = {}
        /\ (RtpCame /\ last.pre.srtpReceive = <<>>) =>
              \E i \in Pushes("recv_rtp_src") : last.out[i].buf = last.in

\* a packet with a byte of its SSRC field changed has been rejected with
\* the CRC warning
C24_Witness ==
    /\ FlippedCame
    /\ CandidateCame
    /\ MagicValid(last.in)
    /\ ReadU32(last.in, 8) # PeerSsrc
    /\ Cardinality(CrcWarnings) = 1
    /\ zrtp.peerSSRC = 0

\* ------------------------------------------------------------ SpecShort
\* Buffers shorter than a ZRTP packet, with a first byte that marks them as
\* ZRTP, arrive on recv_rtp_sink while the application sets properties.

MinZrtpSize == 16

\* the first size bytes of a ZRTP packet of the peer
Truncated(pkt, size) == Sub(pkt, 0, size)

\* what may lie after a short buffer: zero bytes, or the rest of the packet
\* it was cut from
AfterShort(pkt, size) ==
    {[i \in 1..MinZrtpSize |-> B(0)], Sub(pkt, size, Len(pkt) - size)}

\* a short buffer arrives on recv_rtp_sink; what the handler reads outside
\* it is whatever lies there
ShortCandidate ==
    /\ last = NoCall
    /\ \E pkt \in GoodZrtp, size \in 1..(MinZrtpSize - 1) :
        \E after \in AfterShort(pkt, size) :
          \E w \in {gst_zrtp_filter_chain_rtp_up_In(
                        World(zrtp), Truncated(pkt, size),
                        [before |-> [i \in 1..CRC_SIZE |-> B(0)], after |-> after],
                        "none", GST_FLOW_OK)} :
              /\ Bounded(w.z)
              /\ zrtp' = w.z
              /\ last' = Ran("chain_rtp_up", Truncated(pkt, size), w)
    /\ UNCHANGED <<role, srtpVars, concVars>>

NextShort == SetProperty \/ ShortCandidate \/ Return

SpecShort == Init /\ [][NextShort]_vars

\* --------------------------------------------- properties of SpecShort

\* the offsets, counted from the first byte of the buffer, that
\* gst_zrtp_filter_chain_rtp_up reads before it decides on a ZRTP
\* candidate of this size: the first byte, and with ZRTP enabled the CRC
\* and the magic cookie
CandidateReads(z, size) ==
    {0} \cup
      IF z.enableZrtp /\ z.zrtpCtx # <<>>
      THEN ((size - CRC_SIZE)..(size - 1)) \cup (4..7)
      ELSE {}

\* C25 as stated: a buffer of any length whose first byte marks it as ZRTP
\* is dropped (not pushed, not handed to the engine) and no byte at an
\* offset outside [0, size) is read.
C25_ShortReadsInside ==
    (CandidateCame /\ Len(last.in) < MinZrtpSize) =>
        /\ AllPushes = {}
        /\ MessagesProcessed = {}
        /\ CandidateReads(last.pre, Len(last.in)) \subseteq 0..(Len(last.in) - 1)

\* ------------------------------------------------------------- SpecSsrc
\* The application sets local-ssrc to zero, to the SSRC of its RTP stream
\* or to another value, before or after RTP goes out through
\* send_rtp_sink; the engine sends ZRTP packets and makes the sender's
\* secrets ready.

HintSsrc == 43981

SsrcSetProperty ==
    /\ last = NoCall
    /\ \E prop_id \in {"enable", "local-ssrc", "initialize", "start"},
          value \in {0, 1, LocalSsrc, HintSsrc} :
        /\ (prop_id = "local-ssrc") = (value \in {0, LocalSsrc, HintSsrc})
        /\ \E w \in {gst_zrtp_filter_set_property(World(zrtp), prop_id, value)} :
            /\ Bounded(w.z)
            /\ zrtp' = w.z
            /\ last' = Ran(prop_id, U32(value), w)
    /\ UNCHANGED <<role, srtpVars, concVars>>

\* a ZRTP packet of the peer arrives and the engine answers
SsrcMessage ==
    /\ last = NoCall
    /\ \E in \in GoodZrtp, r \in {"send", "readySend"} :
        \E w \in {gst_zrtp_filter_chain_rtp_up(World(zrtp), in, r, GST_FLOW_OK)} :
            /\ Bounded(w.z)
            /\ zrtp' = w.z
            /\ last' = Ran("chain_rtp_up", in, w)
    /\ UNCHANGED <<role, srtpVars, concVars>>

NextSsrc == SsrcSetProperty \/ SsrcMessage \/ ChainRtpDown \/ Return

SpecSsrc == Init /\ [][NextSsrc]_vars

\* ---------------------------------------------- properties of SpecSsrc

\* C26: once an RTP buffer has passed through send_rtp_sink, localSSRC is
\* the SSRC of that buffer, whatever local-ssrc was set to before, and the
\* ZRTP packets that leave in the same call carry it in their header.
C26_SsrcLearned ==
    last.op = "chain_rtp_down" =>
        /\ zrtp.localSSRC = gst_rtp_buffer_get_ssrc(last.in)
        /\ \A i \in ZrtpPushes :
              ReadU32(last.out[i].buf, 8) = gst_rtp_buffer_get_ssrc(last.in)

\* ------------------------------------------------------------ SpecProps
\* The application sets and reads the properties of one filter, in any
\* order, while ZRTP packets arrive and the engine reaches the secure
\* state.

CacheNames == {<<B(97)>>, <<B(98)>>}

\* blobs an application may write to multi-param
ParamBlobs == {MultiStrParams, <<B(1)>>}

PropValues(prop_id) ==
    CASE prop_id = "cache-name"  -> CacheNames
      [] prop_id = "multi-param" -> ParamBlobs
      [] OTHER                   -> {0, 1}

PropsSet ==
    /\ last = NoCall
    /\ \E prop_id \in {"enable", "set-mitm-mode", "cache-name", "initialize", "multi-param"} :
        \E value \in PropValues(prop_id) :
          \E w \in {gst_zrtp_filter_set_property(World(zrtp), prop_id, value)} :
            /\ Bounded(w.z)
            /\ zrtp' = w.z
            /\ last' = Ran(prop_id, IF prop_id \in {"cache-name", "multi-param"} THEN value ELSE <<B(value)>>, w)
    /\ UNCHANGED <<role, srtpVars, concVars>>

PropsGet ==
    /\ last = NoCall
    /\ \E w \in {gst_zrtp_filter_get_property(World(zrtp), "multi-param")} :
            /\ zrtp' = w.z
            /\ last' = Ran("get multi-param", <<>>, w)
    /\ UNCHANGED <<role, srtpVars, concVars>>

\* a ZRTP packet of the peer arrives; the handshake may complete on it
PropsMessage ==
    /\ last = NoCall
    /\ \E in \in GoodZrtp, r \in {"none", "secureOn"} :
        \E w \in {gst_zrtp_filter_chain_rtp_up(World(zrtp), in, r, GST_FLOW_OK)} :
            /\ Bounded(w.z)
            /\ zrtp' = w.z
            /\ last' = Ran("chain_rtp_up", in, w)
    /\ UNCHANGED <<role, srtpVars, concVars>>

NextProps == PropsSet \/ PropsGet \/ PropsMessage \/ Return

SpecProps == Init /\ [][NextProps]_vars

\* --------------------------------------------- properties of SpecProps

InitializeCalls ==
    {i \in EngineCalls : last.out[i].what = "zrtp_initializeZrtpEngine"}

\* C27: setting initialize=v calls the engine once, with the cache name
\* and the MitM mode the properties hold at that moment (the NULL name when
\* cache-name was never set), and sets enableZrtp to v whatever it was;
\* setting cache-name or set-mitm-mode calls no engine function and leaves
\* the engine as it was.
C27_InitializeTakesConfig ==
    /\ last.op = "initialize" =>
          /\ Cardinality(InitializeCalls) = 1
          /\ EngineCalls = InitializeCalls
          /\ \A i \in InitializeCalls :
                /\ last.out[i].buf = last.pre.cacheName
                /\ last.out[i].n = (IF last.pre.mitmMode THEN 1 ELSE 0)
          /\ zrtp.zrtpCtx[1].zidFilename = last.pre.cacheName
          /\ zrtp.zrtpCtx[1].mitmMode = last.pre.mitmMode
          /\ zrtp.enableZrtp = (last.in # <<B(0)>>)
    /\ last.op \in {"cache-name", "set-mitm-mode"} =>
          /\ EngineCalls = {}
          /\ zrtp.zrtpCtx = last.pre.zrtpCtx
          /\ zrtp.enableZrtp = last.pre.enableZrtp

\* cache-name has been set after initialize=FALSE had overridden enable
\* and had passed another name with MitM mode on; the engine keeps that name
C27_Witness ==
    /\ last.op = "cache-name"
    /\ zrtp.zrtpCtx[1].initialized
    /\ zrtp.zrtpCtx[1].mitmMode
    /\ zrtp.zrtpCtx[1].zidFilename \in CacheNames
    /\ zrtp.zrtpCtx[1].zidFilename # zrtp.cacheName
    /\ ~zrtp.enableZrtp

\* the writes of multi-param that reached the engine in the call that has
\* just run
ParamsSet ==
    {i \in EngineCalls : last.out[i].what = "zrtp_setMultiStrParams"}

\* what the read that has just run returned
ValuesRead == {i \in 1..Len(last.out) : last.out[i].ev = "value"}

\* what holds of multi-param whether or not the blob was set before: a
\* filter that has handed out a non-empty blob stays a master and rejects
\* every write without an engine call; a read that finds no parameters
\* returns the empty array and marks nothing
MultiParamGate ==
    /\ (last # NoCall /\ last.pre.gotMultiParam) => zrtp.gotMultiParam
    /\ last.op = "multi-param" =>
          /\ last.pre.gotMultiParam => (EngineCalls = {} /\ zrtp = last.pre)
          /\ ~last.pre.gotMultiParam =>
                /\ Cardinality(ParamsSet) = 1
                /\ EngineCalls = ParamsSet
                /\ \A i \in ParamsSet : last.out[i].buf = last.in
                /\ zrtp.zrtpCtx[1].slaveParams = last.in
    /\ last.op = "get multi-param" =>
          /\ Cardinality(ValuesRead) = 1
          /\ EngineCalls = {}
          /\ \A i \in ValuesRead :
                /\ last.out[i].buf = last.pre.zrtpCtx[1].multiStrParams
                /\ last.out[i].buf = <<>> => zrtp = last.pre
                /\ last.out[i].buf # <<>> => zrtp.gotMultiParam
    /\ (last # NoCall /\ zrtp.gotMultiParam /\ ~last.pre.gotMultiParam) =>
          /\ last.op = "get multi-param"
          /\ \E i \in ValuesRead : last.out[i].buf # <<>>

\* C28 as stated: the gate above, and on a slave session the blob is set
\* exactly once: a write to a filter whose engine has been given the
\* parameters does not reach the engine again.
C28_SetExactlyOnce ==
    /\ MultiParamGate
    /\ (last.op = "multi-param" /\ last.pre.zrtpCtx[1].slaveParams # <<>>) =>
          ParamsSet = {}

\* C28: once a read of multi-param has returned a non-empty blob, every
\* later write of multi-param to that filter is rejected without an engine
\* call; a read that finds no parameters returns an empty byte array and
\* does not mark the filter as master; on a filter that has handed out no
\* blob every write is passed to the engine with the blob written, however
\* often the property is written.
C28_MasterRejectsParams ==
    /\ MultiParamGate
    /\ (last.op = "multi-param" /\ ~last.pre.gotMultiParam) => ParamsSet # {}

\* a write has been rejected on a filter that had handed out its blob
C28_Witness ==
    /\ last.op = "multi-param"
    /\ last.pre.gotMultiParam
    /\ last.pre.zrtpCtx[1].multiStrParams = MultiStrParams
    /\ EngineCalls = {}
    /\ zrtp.zrtpCtx[1].slaveParams = <<>>

\* ------------------------------------------------------------- SpecPeer
\* ZRTP packets that carry one or another SSRC, with a valid or a wrong
\* CRC, arrive on recv_rtp_sink, and the engine makes the secrets ready on
\* some of them; RTP goes out, so that the local SSRC is learned.

OtherPeerSsrc == 30874

PeerSsrcs == {PeerSsrc, OtherPeerSsrc}

PeerZrtp ==
    {ZrtpInFrom(16, ZRTP_MAGIC, ssrc, goodCrc) : ssrc \in PeerSsrcs, goodCrc \in BOOLEAN}

PeerMessage ==
    /\ last = NoCall
    /\ \E in \in PeerZrtp, r \in {"none", "readyRecv", "readySend", "offRecv"} :
        \E w \in {gst_zrtp_filter_chain_rtp_up(World(zrtp), in, r, GST_FLOW_OK)} :
            /\ Bounded(w.z)
            /\ zrtp' = w.z
            /\ last' = Ran("chain_rtp_up", in, w)
    /\ UNCHANGED <<role, srtpVars, concVars>>

NextPeer == SetProperty \/ PeerMessage \/ ChainRtpDown \/ Return

SpecPeer == Init /\ [][NextPeer]_vars

\* ---------------------------------------------- properties of SpecPeer

\* the SSRC an SRTP and an SRTCP context were created for
SsrcOf(ctx) == ctx.srtp[1].ssrc

SsrcOfCtrl(ctx) == ctx.srtcp[1].ssrc

\* C31: when zrtp_srtpSecretsReady runs while an inbound ZRTP packet is
\* processed, the receiver's SRTP and SRTCP contexts are created for the
\* SSRC embedded in that packet, which is the most recent packet with a
\* valid checksum and is what peerSSRC holds from then on, and the sender's
\* contexts for localSSRC; a packet with a wrong checksum leaves peerSSRC
\* as it was.
C31_ReceiverForPeerSsrc ==
    CandidateCame =>
        /\ MessagesProcessed # {} => zrtp.peerSSRC = ReadU32(last.in, 8)
        /\ MessagesProcessed = {} => zrtp.peerSSRC = last.pre.peerSSRC
        /\ "readyRecv" \in Callbacks =>
              /\ MessagesProcessed # {}
              /\ SsrcOf(zrtp.srtpReceive[1]) = ReadU32(last.in, 8)
              /\ SsrcOfCtrl(zrtp.srtcpReceive[1]) = ReadU32(last.in, 8)
        /\ "readySend" \in Callbacks =>
              /\ SsrcOf(zrtp.srtpSend[1]) = zrtp.localSSRC
              /\ SsrcOfCtrl(zrtp.srtcpSend[1]) = zrtp.localSSRC

\* the receiver's contexts have been created for the SSRC of the packet
\* that came in, which is not the SSRC the filter had recorded before
C31_Witness ==
    /\ CandidateCame
    /\ "readyRecv" \in Callbacks
    /\ last.pre.peerSSRC = PeerSsrc
    /\ ReadU32(last.in, 8) = OtherPeerSsrc
    /\ SsrcOf(zrtp.srtpReceive[1]) = OtherPeerSsrc
    /\ SsrcOfCtrl(zrtp.srtcpReceive[1]) = OtherPeerSsrc
    /\ zrtp.localSSRC = LocalSsrc

\* ------------------------------------------------------------- SpecAlgo
\* The engine makes the secrets ready and names, in the secrets, the
\* algorithms it has negotiated; the filter maps the names to the
\* algorithms of the SRTP library.

zrtp_Aes == "zrtp_Aes"

zrtp_TwoFish == "zrtp_TwoFish"

zrtp_Sha1 == "zrtp_Sha1"

zrtp_Skein == "zrtp_Skein"

\* a value of the engine's enumeration that names none of the four
zrtp_Unnamed == "zrtp_Unnamed"

SrtpEncryptionAESCM == "SrtpEncryptionAESCM"

SrtpEncryptionTWOCM == "SrtpEncryptionTWOCM"

SrtpAuthenticationSha1Hmac == "SrtpAuthenticationSha1Hmac"

SrtpAuthenticationSkeinHmac == "SrtpAuthenticationSkeinHmac"

\* a gint that is none of the library's algorithms
Indeterminate == "indeterminate"

\* the secrets with the names of the algorithms
NamedSecret(r, authAlgorithm, symEncAlgorithm) ==
    [role |-> r, keyInitiator |-> 1, saltInitiator |-> 2,
     keyResponder |-> 3, saltResponder |-> 4, srtpAuthTagLen |-> 32,
     authAlgorithm |-> authAlgorithm, symEncAlgorithm |-> symEncAlgorithm]

\* what the locals cipher, authn and authKeyLen may hold before they are
\* assigned: they are declared without an initial value
Uninitialized ==
    [cipher : {SrtpEncryptionAESCM, SrtpEncryptionTWOCM, Indeterminate},
     authn : {SrtpAuthenticationSha1Hmac, SrtpAuthenticationSkeinHmac, Indeterminate},
     authKeyLen : {0, 20, 32}]

\* zrtp_srtpSecretsReady with the algorithms it hands to the library: the
\* locals keep what they held where no test assigns them, and the contexts
\* are created and stored with them
zrtp_srtpSecretsReady_Algorithms(w, secrets, part, locals) ==
    LET authn      == CASE secrets.authAlgorithm = zrtp_Sha1  -> SrtpAuthenticationSha1Hmac
                        [] secrets.authAlgorithm = zrtp_Skein -> SrtpAuthenticationSkeinHmac
                        [] OTHER                              -> locals.authn
        authKeyLen == CASE secrets.authAlgorithm = zrtp_Sha1  -> 20
                        [] secrets.authAlgorithm = zrtp_Skein -> 32
                        [] OTHER                              -> locals.authKeyLen
        cipher     == CASE secrets.symEncAlgorithm = zrtp_Aes     -> SrtpEncryptionAESCM
                        [] secrets.symEncAlgorithm = zrtp_TwoFish -> SrtpEncryptionTWOCM
                        [] OTHER                                  -> locals.cipher
        created    == Emit(Emit(w, Ev("zsrtp_CreateWrapper", cipher, authn, <<>>, authKeyLen)),
                           Ev("zsrtp_CreateWrapperCtrl", cipher, authn, <<>>, authKeyLen))
    IN  [zrtp_srtpSecretsReady(created, secrets, part) EXCEPT !.rc = 1]

SecretsReadyOp(part) ==
    IF part = ForSender THEN "secretsReady ForSender" ELSE "secretsReady ForReceiver"

\* the engine calls zrtp_srtpSecretsReady
SecretsReady ==
    /\ last = NoCall
    /\ \E authAlgorithm \in {zrtp_Sha1, zrtp_Skein, zrtp_Unnamed},
          symEncAlgorithm \in {zrtp_Aes, zrtp_TwoFish, zrtp_Unnamed},
          part \in {ForSender, ForReceiver}, locals \in Uninitialized :
        \E w \in {zrtp_srtpSecretsReady_Algorithms(
                      Emit(World(zrtp), Ev("secrets", symEncAlgorithm, authAlgorithm, <<>>, 0)),
                      NamedSecret(role, authAlgorithm, symEncAlgorithm), part, locals)} :
            /\ zrtp' = w.z
            /\ last' = Ran(SecretsReadyOp(part), <<>>, w)
    /\ UNCHANGED <<role, srtpVars, concVars>>

\* the engine calls zrtp_srtpSecretsOff
SecretsOff ==
    /\ last = NoCall
    /\ \E part \in {ForSender, ForReceiver} :
        \E w \in {zrtp_srtpSecretsOff(World(zrtp), part)} :
            /\ zrtp' = w.z
            /\ last' = Ran("secretsOff", <<>>, w)
    /\ UNCHANGED <<role, srtpVars, concVars>>

NextAlgo == SetProperty \/ SecretsReady \/ SecretsOff \/ Return

SpecAlgo == Init /\ [][NextAlgo]_vars

\* ---------------------------------------------- properties of SpecAlgo

\* the contexts the callback has created, by their place in its record
Creations ==
    {i \in 1..Len(last.out) :
        last.out[i].ev \in {"zsrtp_CreateWrapper", "zsrtp_CreateWrapperCtrl"}}

\* the algorithms of the library that the secrets name
CipherNamed(symEncAlgorithm) ==
    IF symEncAlgorithm = zrtp_Aes THEN SrtpEncryptionAESCM ELSE SrtpEncryptionTWOCM

AuthnNamed(authAlgorithm) ==
    IF authAlgorithm = zrtp_Sha1 THEN SrtpAuthenticationSha1Hmac
    ELSE SrtpAuthenticationSkeinHmac

AuthKeyLenNamed(authAlgorithm) == IF authAlgorithm = zrtp_Sha1 THEN 20 ELSE 32

SecretsReadyRan ==
    last.op \in {SecretsReadyOp(ForSender), SecretsReadyOp(ForReceiver)}

NamesKnown ==
    /\ last.out[1].what \in {zrtp_Aes, zrtp_TwoFish}
    /\ last.out[1].sub \in {zrtp_Sha1, zrtp_Skein}

\* with secrets that name AES or Twofish and SHA1 or Skein, the contexts
\* are created with exactly the algorithms named and the key length of
\* the authentication
NamedAlgorithmsUsed ==
    (SecretsReadyRan /\ NamesKnown) =>
        /\ Creations # {}
        /\ last.rc = 1
        /\ \A i \in Creations :
              /\ last.out[i].what = CipherNamed(last.out[1].what)
              /\ last.out[i].sub = AuthnNamed(last.out[1].sub)
              /\ last.out[i].n = AuthKeyLenNamed(last.out[1].sub)

\* C37: zrtp_srtpSecretsReady creates contexts with exactly the cipher
\* (AES-CM or Twofish-CM) and the authentication (SHA1-HMAC with a key of
\* 20 bytes, Skein-HMAC with a key of 32 bytes) that the secrets name; if
\* the secrets name another authentication or encryption algorithm, no
\* context is created or installed and the callback returns 0.
C37_DeterminedAlgorithms ==
    /\ NamedAlgorithmsUsed
    /\ (SecretsReadyRan /\ ~NamesKnown) =>
          /\ Creations = {}
          /\ zrtp = last.pre
          /\ last.rc = 0

\* ------------------------------------------------------------ SpecTrunc
\* Buffers that are shorter than an SRTP or SRTCP packet can arrive on
\* recv_rtp_sink and recv_rtcp_sink while the receiver's contexts are
\* installed.  The wrapper computes its offsets from the size of the buffer;
\* a read through an offset outside the buffer gets what lies next to the
\* buffer, and faults where no memory is mapped.

\* uint32_t srtpDataIndex = length - (tagLength + mkiLength), as the word
\* it is: a negative difference d is the word of d + 2^32
SrtpDataIndex(pcc, length) == length - (pcc.tagLength + pcc.mkiLength)

\* the word, read as a uint32_t, is 2^31 or more
Huge(word) == word < 0

\* the builds: pointers of 32 and of 64 bits
PointerBits == {32, 64}

\* data + offset for an offset that is a uint32_t: the sum wraps around
\* where pointers have 32 bits, and lies 2^31 or more bytes behind data, where
\* no buffer reaches, where they have 64
PointerOffset(bits, offset) ==
    IF bits = 64 /\ Huge(offset) THEN 2147483647 ELSE offset

\* the bytes from off on, len of them (a uint32_t), lie between the
\* offsets lo and hi
Within(range, lo, hi) ==
    \/ range[2] = 0
    \/ /\ ~Huge(range[2])
       /\ range[1] >= lo
       /\ range[1] <= hi
       /\ range[2] <= hi - range[1]

\* they lie in the buffer of this size
Inside(range, size) == Within(range, 0, size)

\* they lie in the buffer or in the memory that is mapped around it
Mapped(range, size, slack) ==
    Within(range, 0 - Len(slack.before), size + Len(slack.after))

\* the reads of gst_rtp_buffer_get_header_len: the first byte, and the
\* length of the extension if the X bit is set
HeaderReads(view) ==
    LET len == GST_RTP_HEADER_LEN + 4 * (ByteAt(view, 0) % 16)
    IN  IF (ByteAt(view, 0) \div 16) % 2 = 1 THEN <<<<0, 1>>, <<len + 2, 2>>>>
        ELSE <<<<0, 1>>>>

\* zsrtp_unprotect on a buffer that lies between the bytes of slack, in a
\* build with pointers of the given width: the result of zsrtp_unprotect,
\* the ranges <<offset, length>> it has read, and whether a read has
\* faulted
zsrtp_unprotect_In(ctx, gstBuf, slack, bits) ==
    LET pcc           == ctx.srtp[1]
        o             == Len(slack.before)
        memory        == slack.before \o gstBuf \o slack.after
        view          == Sub(memory, o, Len(memory) - o)
        length0       == Len(gstBuf)
        hdrlen        == gst_rtp_buffer_get_header_len(view)
        srtpDataIndex == SrtpDataIndex(pcc, length0)
        length        == srtpDataIndex
        payloadlen    == (length0 - hdrlen) - (pcc.tagLength + pcc.mkiLength)
        tagAt         == PointerOffset(bits, srtpDataIndex) + pcc.mkiLength
        seqnum        == gst_rtp_buffer_get_seq(view)
        first         == HeaderReads(view) \o <<<<2, 2>>>>
        auth          == <<<<0, length>>, <<tagAt, pcc.tagLength>>>>
        crypt         == <<<<8, 4>>, <<hdrlen, payloadlen>>>>
        NoFault(rs)   == \A i \in 1..Len(rs) : Mapped(rs[i], length0, slack)
        Left(rc, rs, fault) ==
            [u |-> [rc |-> rc, ctx |-> ctx, buf |-> gstBuf, calls |-> <<>>],
             reads |-> rs, fault |-> fault, srtpDataIndex |-> srtpDataIndex]
    IN  IF ~NoFault(first) THEN Left(0, first, TRUE)
        ELSE IF ~checkReplay(pcc, seqnum) THEN Left(-2, first, FALSE)
        ELSE IF ~NoFault(auth) THEN Left(0, first \o auth, TRUE)
        ELSE
        LET guessedIndex == guessIndex(pcc, seqnum)
            guessedRoc   == guessedIndex \div SeqMod
            mac          == srtpAuthenticate(pcc, view, length, guessedRoc)
            tag          == Sub(memory, o + tagAt, pcc.tagLength)
        IN  IF tag # mac THEN Left(-1, first \o auth, FALSE)
            ELSE IF ~NoFault(crypt) \/ payloadlen < 0
            THEN Left(0, first \o auth \o crypt, TRUE)
            ELSE [u |-> zsrtp_unprotect(ctx, gstBuf), reads |-> first \o auth \o crypt,
                  fault |-> FALSE, srtpDataIndex |-> srtpDataIndex]

\* zsrtp_unprotectCtrl on a buffer that lies between the bytes of slack
zsrtp_unprotectCtrl_In(ctx, gstBuf, slack) ==
    LET pcc         == ctx.srtcp[1]
        o           == Len(slack.before)
        memory      == slack.before \o gstBuf \o slack.after
        length      == Len(gstBuf)
        payloadLen  == length - (pcc.tagLength + pcc.mkiLength + 4)
        encIndex    == ReadU32(memory, o + payloadLen)
        remoteIndex == ClearBit31(encIndex)
        tagAt       == length - pcc.tagLength
        first       == <<<<payloadLen, 4>>>>
        auth        == <<<<0, payloadLen>>, <<tagAt, pcc.tagLength>>>>
        crypt       == <<<<4, 4>>>> \o
                         (IF encIndex < 0 THEN <<<<8, payloadLen - 8>>>> ELSE <<>>)
        NoFault(rs) == \A i \in 1..Len(rs) : Mapped(rs[i], length, slack)
        Left(rc, rs, fault) ==
            [u |-> [rc |-> rc, ctx |-> ctx, buf |-> gstBuf, calls |-> <<>>],
             reads |-> rs, fault |-> fault, srtpDataIndex |-> payloadLen]
    IN  IF ~NoFault(first) THEN Left(0, first, TRUE)
        ELSE IF ~checkReplayCtrl(pcc, remoteIndex) THEN Left(-2, first, FALSE)
        ELSE IF ~NoFault(auth) THEN Left(0, first \o auth, TRUE)
        ELSE
        LET mac == srtcpAuthenticate(pcc, Sub(memory, o, Len(memory) - o), payloadLen, encIndex)
            tag == Sub(memory, o + tagAt, pcc.tagLength)
        IN  IF tag # mac THEN Left(-1, first \o auth, FALSE)
            ELSE IF ~NoFault(crypt) \/ payloadLen < 8
            THEN Left(0, first \o auth \o crypt, TRUE)
            ELSE [u |-> zsrtp_unprotectCtrl(ctx, gstBuf), reads |-> first \o auth \o crypt,
                  fault |-> FALSE, srtpDataIndex |-> payloadLen]

\* the process has faulted in fn after it has read the ranges; the filter
\* is as it was
Fault(w, fn, r) == Emit(w, Ev("fault", fn, "", r.reads, r.srtpDataIndex))

\* gst_zrtp_filter_chain_rtp_up on a buffer that is not a ZRTP candidate,
\* with srtpReceive installed
gst_zrtp_filter_chain_rtp_up_Srtp(w, gstBuf, slack, bits, flow) ==
    LET r  == zsrtp_unprotect_In(w.z.srtpReceive[1], gstBuf, slack, bits)
        u  == r.u
        wu == Emit([w EXCEPT !.z.srtpReceive = <<u.ctx>>],
                   Ev("call", "zsrtp_unprotect", "", r.reads, r.srtpDataIndex))
        w1 == IF u.rc = 1
              THEN [gst_pad_push([wu EXCEPT !.z.unprotect = @ + 1],
                                 "recv_rtp_src", u.buf, flow)
                      EXCEPT !.z.unprotect_err = 0]
              ELSE [gst_buffer_unref(
                        g_signal_emit(wu, "status", "zrtp_Warning",
                            IF u.rc = -1 THEN "zrtp_WarningSRTPauthError"
                            ELSE "zrtp_WarningSRTPreplayError"),
                        u.buf)
                      EXCEPT !.z.unprotect_err = u.rc, !.rc = GST_FLOW_ERROR]
    IN  IF r.fault THEN Fault(w, "zsrtp_unprotect", r)
        ELSE IF ~w1.z.started /\ w1.z.enableZrtp
        THEN zrtp_filter_startZrtp(w1) ELSE w1

\* gst_zrtp_filter_chain_rtcp_up with srtcpReceive installed
gst_zrtp_filter_chain_rtcp_up_Srtcp(w, gstBuf, slack, flow) ==
    LET r  == zsrtp_unprotectCtrl_In(w.z.srtcpReceive[1], gstBuf, slack)
        u  == r.u
        wu == Emit([w EXCEPT !.z.srtcpReceive = <<u.ctx>>],
                   Ev("call", "zsrtp_unprotectCtrl", "", r.reads, r.srtpDataIndex))
    IN  IF r.fault THEN Fault(w, "zsrtp_unprotectCtrl", r)
        ELSE IF u.rc = 1
        THEN gst_pad_push(wu, "recv_rtcp_src", u.buf, flow)
        ELSE gst_buffer_unref([wu EXCEPT !.rc = GST_FLOW_ERROR], u.buf)

\* the shortest SRTP packet: the fixed header and the tag; the shortest
\* SRTCP packet: the first eight bytes, the index and the tag
MinSrtpSize == GST_RTP_HEADER_LEN + AuthTagLen

MinSrtcpSize == 8 + 4 + AuthTagLen

\* what may lie before and after a buffer that was cut from pkt
Slacks(pkt, size) ==
    [before : {<<>>, [i \in 1..MinSrtcpSize |-> B(0)]},
     after : {<<>>, Sub(pkt, size, Len(pkt) - size)}]

\* a short buffer arrives on recv_rtp_sink
ShortSrtp ==
    /\ last = NoCall
    /\ zrtp.srtpReceive # <<>>
    /\ \E size \in 1..(MinSrtpSize - 1), bits \in PointerBits :
        \E pkt \in {PeerSrtp[role][0]} :
          \E slack \in Slacks(pkt, size) :
            \E w \in {gst_zrtp_filter_chain_rtp_up_Srtp(
                          World(zrtp), Truncated(pkt, size), slack, bits, GST_FLOW_OK)} :
                /\ zrtp' = w.z
                /\ last' = Ran("chain_rtp_up", Truncated(pkt, size), w)
    /\ UNCHANGED <<role, srtpVars, concVars>>

\* a short buffer arrives on recv_rtcp_sink
ShortSrtcp ==
    /\ last = NoCall
    /\ zrtp.srtcpReceive # <<>>
    /\ \E size \in 1..(MinSrtcpSize - 1) :
        \E pkt \in {PeerSrtcp[role][0]} :
          \E slack \in Slacks(pkt, size) :
            \E w \in {gst_zrtp_filter_chain_rtcp_up_Srtcp(
                          World(zrtp), Truncated(pkt, size), slack, GST_FLOW_OK)} :
                /\ zrtp' = w.z
                /\ last' = Ran("chain_rtcp_up", Truncated(pkt, size), w)
    /\ UNCHANGED <<role, srtpVars, concVars>>

NextTrunc == SetProperty \/ SecretsReady \/ ShortSrtp \/ ShortSrtcp \/ Return

SpecTrunc == Init /\ [][NextTrunc]_vars

\* --------------------------------------------- properties of SpecTrunc

\* what the wrapper has done on the buffer of the handler that has just
\* run: its call, or the fault in it
Unprotects ==
    {i \in 1..Len(last.out) :
        /\ last.out[i].ev \in {"call", "fault"}
        /\ last.out[i].what \in {"zsrtp_unprotect", "zsrtp_unprotectCtrl"}}

ShortSrtpCame ==
    /\ last.op = "chain_rtp_up"
    /\ last.pre.srtpReceive # <<>>
    /\ ByteAt(last.in, 0) \div 16 # 1
    /\ Len(last.in) < gst_rtp_buffer_get_header_len(last.in) + AuthTagLen

ShortSrtcpCame ==
    /\ last.op = "chain_rtcp_up"
    /\ last.pre.srtcpReceive # <<>>
    /\ Len(last.in) < MinSrtcpSize

\* the wrapper has returned, and every range it has read lies in the buffer
ReadsInside ==
    \A i \in Unprotects :
        /\ last.out[i].ev = "call"
        /\ \A k \in 1..Len(last.out[i].buf) : Inside(last.out[i].buf[k], Len(last.in))

\* C39: an inbound buffer shorter than its RTP header plus the tag (SRTP),
\* or shorter than 8 bytes plus the index word plus the tag (SRTCP), is
\* rejected by zsrtp_unprotect and zsrtp_unprotectCtrl: it is pushed on no
\* pad, the unsigned offset length - (tagLength + mkiLength) has not wrapped
\* around, and no byte outside [0, length) is read.
C39_ShortInsideBuffer ==
    (ShortSrtpCame \/ ShortSrtcpCame) =>
        /\ MediaPushes = {}
        /\ ReadsInside
        /\ ShortSrtpCame => \A i \in Unprotects : ~Huge(last.out[i].n)

\* the short buffers whose offsets stay in the buffer: an SRTP buffer of at
\* least the tag's length that has no header extension, and an SRTCP buffer
\* of at least eight bytes; they are rejected as C39 states
ShortStillInside ==
    \/ /\ ShortSrtpCame
       /\ Len(last.in) >= AuthTagLen
       /\ (ByteAt(last.in, 0) \div 16) % 2 = 0
    \/ /\ ShortSrtcpCame
       /\ Len(last.in) >= 4 + AuthTagLen

RejectedWhereInside ==
    ShortStillInside =>
        /\ MediaPushes = {}
        /\ ReadsInside
        /\ ShortSrtpCame => \A i \in Unprotects : ~Huge(last.out[i].n)

\* ------------------------------------------------------------ SpecStart
\* The thread that streams into recv_rtp_sink and the thread that streams
\* into send_rtp_sink run their chain functions at the same time, and the
\* application sets enable and initialize.  The chain functions take no
\* lock; each action is one statement of the code.  last keeps the calls of
\* the engine that the threads have made.

StreamingThreads == {"recv_rtp_sink", "send_rtp_sink"}

\* what a thread has been handed: on recv_rtp_sink an RTP buffer or a ZRTP
\* packet with a valid checksum, on send_rtp_sink an RTP buffer
Handed(t) ==
    IF t = "recv_rtp_sink" THEN {"chain_rtp_up", "chain_rtp_up zrtp"}
    ELSE {"chain_rtp_down"}

InitStart ==
    /\ IdleSrtp
    /\ heap = [o \in 1..MaxObjs |-> "unused"]
    /\ ctxPtr = [f \in {"srtpReceive", "srtcpReceive", "srtpSend", "srtcpSend"} |-> 0]
    /\ zrtpMutex = ""
    /\ engine = [t \in EngineThreads |-> EngineIdle]
    /\ streamer = [t \in StreamingThreads |-> StreamerIdle]
    /\ zrtp = gst_zrtp_filter_init
    /\ role = Initiator
    /\ last = NoCall

\* the application sets enable or initialize
StartSetProperty ==
    /\ \E prop_id \in {"enable", "initialize"}, value \in {0, 1} :
        zrtp' = gst_zrtp_filter_set_property(World(zrtp), prop_id, value).z
    /\ UNCHANGED <<role, last, srtpVars, concVars>>

\* a thread enters its chain function; chain_rtp_down learns the local
\* SSRC, and a ZRTP packet is looked at only if ZRTP is enabled
StartEnter ==
    \E t \in StreamingThreads : \E fn \in Handed(t) :
        /\ streamer[t].pc = "idle"
        /\ streamer' = [streamer EXCEPT
                           ![t].fn = fn,
                           ![t].pc = IF fn = "chain_rtp_up zrtp" /\ ~zrtp.enableZrtp
                                     THEN "return" ELSE "test"]
        /\ zrtp' = IF fn = "chain_rtp_down" /\ zrtp.localSSRC = 0
                   THEN [zrtp EXCEPT !.localSSRC = LocalSsrc] ELSE zrtp
        /\ UNCHANGED <<role, last, srtpVars, heap, ctxPtr, zrtpMutex, engine>>

\* if (!zrtp->started && zrtp->enableZrtp), if (!zrtp->started)
StartTest ==
    \E t \in StreamingThreads :
        /\ streamer[t].pc = "test"
        /\ streamer' = [streamer EXCEPT
                           ![t].pc = IF /\ ~zrtp.started
                                        /\ (zrtp.enableZrtp \/ streamer[t].fn = "chain_rtp_up zrtp")
                                     THEN "call" ELSE "return"]
        /\ UNCHANGED <<zrtp, role, last, srtpVars, heap, ctxPtr, zrtpMutex, engine>>

\* zrtp_filter_startZrtp: zrtp_startZrtpEngine(zrtp->zrtpCtx)
StartEngine ==
    \E t \in StreamingThreads :
        /\ streamer[t].pc = "call"
        /\ \E w \in {zrtp_startZrtpEngine(World(zrtp))} :
            /\ zrtp' = w.z
            /\ last' = [last EXCEPT !.op = "threads", !.out = Append(@, w.out[1])]
        /\ streamer' = [streamer EXCEPT ![t].pc = "set"]
        /\ UNCHANGED <<role, srtpVars, heap, ctxPtr, zrtpMutex, engine>>

\* zrtp_filter_startZrtp: zrtp->started = 1
StartSet ==
    \E t \in StreamingThreads :
        /\ streamer[t].pc = "set"
        /\ zrtp' = [zrtp EXCEPT !.started = TRUE]
        /\ streamer' = [streamer EXCEPT ![t].pc = "return"]
        /\ UNCHANGED <<role, last, srtpVars, heap, ctxPtr, zrtpMutex, engine>>

\* the chain function returns
StartReturn ==
    \E t \in StreamingThreads :
        /\ streamer[t].pc = "return"
        /\ streamer' = [streamer EXCEPT ![t] = StreamerIdle]
        /\ UNCHANGED <<zrtp, role, last, srtpVars, heap, ctxPtr, zrtpMutex, engine>>

NextStart ==
    \/ StartSetProperty \/ StartEnter \/ StartTest \/ StartEngine \/ StartSet
    \/ StartReturn

SpecStart == InitStart /\ [][NextStart]_vars

\* --------------------------------------------- properties of SpecStart

\* C33: the engine is started at most once by data traffic: when the
\* thread in gst_zrtp_filter_chain_rtp_up and the thread in
\* gst_zrtp_filter_chain_rtp_down process their first buffers at the same
\* time with ZRTP enabled, zrtp_startZrtpEngine is called once, and once
\* started is set it has been called exactly once.
C33_StartedOnce ==
    /\ Cardinality(StartCalls) <= 1
    /\ zrtp.started => Cardinality(StartCalls) = 1

\* a thread does not call zrtp_startZrtpEngine once started is set
StartsBeforeSet ==
    [][\A t \in StreamingThreads :
          (streamer[t].pc = "test" /\ streamer'[t].pc = "call") => ~zrtp.started]_vars

\* ------------------------------------------------------------ SpecClock
\* The clock's thread runs timer_callback for an entry that has reached its
\* time while a thread that runs the engine on a ZRTP message calls
\* zrtp_activateTimer or zrtp_cancelTimer.  The engine holds zrtpMutex while
\* it works (zrtp_synchEnter, zrtp_synchLeave); timer_callback takes no
\* lock before it calls the engine.  Each action is one statement of the
\* code.  heap holds the clock ids, zrtp.sysclock the entries that wait at
\* the clock, and last keeps what the threads have done, in order.

ClockIdle == [pc |-> "idle", id |-> 0]

InitClock ==
    /\ IdleSrtp
    /\ heap = [o \in 1..MaxObjs |-> "unused"]
    /\ ctxPtr = [f \in {"srtpReceive", "srtcpReceive", "srtpSend", "srtcpSend"} |-> 0]
    /\ zrtpMutex = ""
    /\ streamer = StreamerIdle
    /\ engine = [t \in EngineThreads |-> ClockIdle]
    /\ zrtp = gst_zrtp_filter_init
    /\ role = Initiator
    /\ last = NoCall

\* what a thread does is added to the record
Did(what, t, id) ==
    [last EXCEPT !.op = "threads", !.out = Append(@, Ev("clock", what, t, <<>>, id))]

\* an entry reaches its time: it leaves the clock, and the clock's thread
\* calls timer_callback for it
ClockFire ==
    /\ engine["timer"].pc = "idle"
    /\ \E id \in zrtp.sysclock :
        /\ zrtp' = [zrtp EXCEPT !.sysclock = @ \ {id}]
        /\ engine' = [engine EXCEPT !["timer"] = [pc |-> "unref", id |-> id]]
    /\ UNCHANGED <<role, last, srtpVars, heap, ctxPtr, zrtpMutex, streamer>>

\* timer_callback: gst_clock_id_unref(zrtp->clockId)
CallbackUnref ==
    /\ engine["timer"].pc = "unref"
    /\ last' = Did("gst_clock_id_unref", "timer_callback", zrtp.clockId)
    /\ engine' = [engine EXCEPT !["timer"].pc = "null"]
    /\ UNCHANGED <<zrtp, role, srtpVars, heap, ctxPtr, zrtpMutex, streamer>>

\* timer_callback: zrtp->clockId = NULL
CallbackNull ==
    /\ engine["timer"].pc = "null"
    /\ zrtp' = [zrtp EXCEPT !.clockId = 0]
    /\ engine' = [engine EXCEPT !["timer"].pc = "timeout"]
    /\ UNCHANGED <<role, last, srtpVars, heap, ctxPtr, zrtpMutex, streamer>>

\* what the engine does with its timer when it is called
TimerCallbacks == {"none", "zrtp_activateTimer", "zrtp_cancelTimer"}

FirstStatement(cb) ==
    CASE cb = "zrtp_activateTimer" -> "new"
      [] cb = "zrtp_cancelTimer"   -> "test"
      [] OTHER                     -> "leave"

\* timer_callback: zrtp_processTimeout; the engine takes the mutex and
\* handles the timeout of the entry
CallbackTimeout ==
    /\ engine["timer"].pc = "timeout"
    /\ zrtpMutex = ""
    /\ zrtpMutex' = "timer"
    /\ last' = Did("zrtp_processTimeout", "timer_callback", engine["timer"].id)
    /\ \E cb \in TimerCallbacks :
        /\ cb = "zrtp_activateTimer" => Unused(heap) # {}
        /\ engine' = [engine EXCEPT !["timer"].pc = FirstStatement(cb)]
    /\ UNCHANGED <<zrtp, role, srtpVars, heap, ctxPtr, streamer>>

\* a ZRTP message arrives: the engine takes the mutex and handles it
MessageEnter ==
    /\ engine["recv"].pc = "idle"
    /\ zrtpMutex = ""
    /\ zrtpMutex' = "recv"
    /\ \E cb \in TimerCallbacks \ {"none"} :
        /\ cb = "zrtp_activateTimer" => Unused(heap) # {}
        /\ engine' = [engine EXCEPT !["recv"].pc = FirstStatement(cb)]
    /\ UNCHANGED <<zrtp, role, last, srtpVars, heap, ctxPtr, streamer>>

\* zrtp_activateTimer: zrtp->clockId = gst_clock_new_single_shot_id(...)
ActivateNew ==
    \E t \in EngineThreads :
        /\ engine[t].pc = "new"
        /\ heap' = [heap EXCEPT ![New(heap)] = "live"]
        /\ zrtp' = [zrtp EXCEPT !.clockId = New(heap)]
        /\ engine' = [engine EXCEPT ![t].pc = "wait"]
        /\ UNCHANGED <<role, last, srtpVars, ctxPtr, zrtpMutex, streamer>>

\* zrtp_activateTimer: gst_clock_id_wait_async(zrtp->clockId, ...), which
\* rejects a NULL id
ActivateWait ==
    \E t \in EngineThreads :
        /\ engine[t].pc = "wait"
        /\ zrtp' = [zrtp EXCEPT !.sysclock = IF zrtp.clockId = 0 THEN @
                                             ELSE @ \cup {zrtp.clockId}]
        /\ last' = Did("gst_clock_id_wait_async", "zrtp_activateTimer", zrtp.clockId)
        /\ engine' = [engine EXCEPT ![t].pc = "leave"]
        /\ UNCHANGED <<role, srtpVars, heap, ctxPtr, zrtpMutex, streamer>>

\* zrtp_cancelTimer: if (zrtp->clockId)
CancelTest ==
    \E t \in EngineThreads :
        /\ engine[t].pc = "test"
        /\ engine' = [engine EXCEPT
                         ![t].pc = IF zrtp.clockId # 0 THEN "unschedule" ELSE "leave"]
        /\ UNCHANGED <<zrtp, role, last, srtpVars, heap, ctxPtr, zrtpMutex, streamer>>

\* zrtp_cancelTimer: gst_clock_id_unschedule(zrtp->clockId); an entry that
\* has left the clock is not held back
CancelUnschedule ==
    \E t \in EngineThreads :
        /\ engine[t].pc = "unschedule"
        /\ zrtp' = [zrtp EXCEPT !.sysclock = @ \ {zrtp.clockId}]
        /\ engine' = [engine EXCEPT ![t].pc = "cancel_unref", ![t].id = zrtp.clockId]
        /\ UNCHANGED <<role, last, srtpVars, heap, ctxPtr, zrtpMutex, streamer>>

\* zrtp_cancelTimer: gst_clock_id_unref(zrtp->clockId)
CancelUnref ==
    \E t \in EngineThreads :
        /\ engine[t].pc = "cancel_unref"
        /\ last' = Did("gst_clock_id_unref", "zrtp_cancelTimer", zrtp.clockId)
        /\ engine' = [engine EXCEPT ![t].pc = "cancel_null"]
        /\ UNCHANGED <<zrtp, role, srtpVars, heap, ctxPtr, zrtpMutex, streamer>>

\* zrtp_cancelTimer: zrtp->clockId = NULL; return 1, for the timer it has
\* unscheduled
CancelNull ==
    \E t \in EngineThreads :
        /\ engine[t].pc = "cancel_null"
        /\ zrtp' = [zrtp EXCEPT !.clockId = 0]
        /\ last' = Did("return", "zrtp_cancelTimer", engine[t].id)
        /\ engine' = [engine EXCEPT ![t].pc = "leave"]
        /\ UNCHANGED <<role, srtpVars, heap, ctxPtr, zrtpMutex, streamer>>

\* the engine has done its work and gives the mutex back
EngineLeave ==
    \E t \in EngineThreads :
        /\ engine[t].pc = "leave"
        /\ zrtpMutex' = ""
        /\ engine' = [engine EXCEPT ![t] = ClockIdle]
        /\ UNCHANGED <<zrtp, role, last, srtpVars, heap, ctxPtr, streamer>>

NextClock ==
    \/ ClockFire \/ CallbackUnref \/ CallbackNull \/ CallbackTimeout
    \/ MessageEnter \/ ActivateNew \/ ActivateWait
    \/ CancelTest \/ CancelUnschedule \/ CancelUnref \/ CancelNull \/ EngineLeave

SpecClock == InitClock /\ [][NextClock]_vars

\* --------------------------------------------- properties of SpecClock

\* what the threads have done, by the place in the record
Done(what) ==
    {i \in 1..Len(last.out) : last.out[i].ev = "clock" /\ last.out[i].what = what}

\* the clock id is given back once at most
UnrefOnce ==
    \A i, j \in Done("gst_clock_id_unref") :
        (last.out[i].n = last.out[j].n /\ last.out[i].n # 0) => i = j

\* no unref is made through a clockId that is NULL
UnrefNotNull == \A i \in Done("gst_clock_id_unref") : last.out[i].n # 0

\* timer_callback gives back the id of the entry it was called for, not
\* the id of a timer that has replaced it: the unref of a callback is
\* followed by the timeout of the same id
UnrefNotReplaced ==
    \A i \in Done("zrtp_processTimeout") :
        \E j \in Done("gst_clock_id_unref") :
            /\ j < i
            /\ last.out[j].sub = "timer_callback"
            /\ last.out[j].n = last.out[i].n

\* a timer whose zrtp_cancelTimer has returned delivers no timeout
NoTimeoutAfterCancel ==
    \A i \in Done("return"), j \in Done("zrtp_processTimeout") :
        last.out[i].n = last.out[j].n => j < i

\* C34: under every interleaving of the clock's thread in timer_callback
\* with a thread in zrtp_cancelTimer or zrtp_activateTimer, no clock id is
\* unreferenced twice, none is unreferenced through a NULL or a replaced
\* clockId, and once zrtp_cancelTimer has returned the timer it cancelled
\* delivers no timeout to the engine.
C34_TimerReleasedOnce ==
    /\ UnrefOnce
    /\ UnrefNotNull
    /\ UnrefNotReplaced
    /\ NoTimeoutAfterCancel

\* ------------------------------------------------------------- SpecConc
\* A streaming thread runs the chain functions while the timer thread and
\* the thread that receives ZRTP packets run the ZRTP engine.  The engine
\* brackets its work with zrtp_synchEnter and zrtp_synchLeave and calls
\* zrtp_srtpSecretsReady and zrtp_srtpSecretsOff in between; the chain
\* functions take no lock.  Each action is one statement of the code.

InitConc ==
    /\ IdleConc
    /\ IdleSrtp
    /\ zrtp = gst_zrtp_filter_init
    /\ role = Initiator
    /\ last = NoCall

\* a chain function tests its context pointer against NULL
ChainEnter ==
    /\ streamer.pc = "idle"
    /\ \E fn \in ChainFunctions :
        streamer' = [StreamerIdle EXCEPT
                        !.pc = IF ctxPtr[FieldOf(fn)] = 0 THEN "push" ELSE "load",
                        !.fn = fn,
                        !.seen = ctxPtr[FieldOf(fn)]]
    /\ UNCHANGED <<heap, ctxPtr, zrtpMutex, engine, srtpVars, filterVars>>

\* it calls the wrapper on the pointer: the field is read without the
\* mutex, so the call gets the value tested or the value the field has now
ChainCall ==
    /\ streamer.pc = "load"
    /\ \E a \in {streamer.seen, ctxPtr[FieldOf(streamer.fn)]} :
        streamer' = [streamer EXCEPT
                        !.pc = "run",
                        !.arg = a,
                        !.onCall = IF a = 0 THEN "null" ELSE heap[a]]
    /\ UNCHANGED <<heap, ctxPtr, zrtpMutex, engine, srtpVars, filterVars>>

\* the wrapper returns
ChainPush ==
    /\ streamer.pc = "run"
    /\ streamer' = [streamer EXCEPT !.pc = "push"]
    /\ UNCHANGED <<heap, ctxPtr, zrtpMutex, engine, srtpVars, filterVars>>

\* the buffer is pushed or released and the chain function returns
ChainReturn ==
    /\ streamer.pc = "push"
    /\ streamer' = StreamerIdle
    /\ UNCHANGED <<heap, ctxPtr, zrtpMutex, engine, srtpVars, filterVars>>

\* the engine of a thread takes the mutex and is about to call back
SynchEnter ==
    \E t \in EngineThreads, part \in {ForSender, ForReceiver}, cb \in {"ready", "off"} :
        /\ engine[t].pc = "idle"
        /\ zrtpMutex = ""
        /\ cb = "ready" => Cardinality(Unused(heap)) >= 2
        /\ zrtpMutex' = t
        /\ engine' = [engine EXCEPT ![t] = [EngineIdle EXCEPT !.pc = cb, !.part = part]]
        /\ UNCHANGED <<heap, ctxPtr, streamer, srtpVars, filterVars>>

\* zrtp_srtpSecretsReady: zsrtp_CreateWrapper
ReadyCreate ==
    \E t \in EngineThreads :
        /\ engine[t].pc = "ready"
        /\ heap' = [heap EXCEPT ![New(heap)] = "live"]
        /\ engine' = [engine EXCEPT ![t].pc = "ready_ctrl", ![t].srtp = New(heap)]
        /\ UNCHANGED <<ctxPtr, zrtpMutex, streamer, srtpVars, filterVars>>

\* zrtp_srtpSecretsReady: zsrtp_CreateWrapperCtrl
ReadyCreateCtrl ==
    \E t \in EngineThreads :
        /\ engine[t].pc = "ready_ctrl"
        /\ heap' = [heap EXCEPT ![New(heap)] = "live"]
        /\ engine' = [engine EXCEPT ![t].pc = "store", ![t].srtcp = New(heap)]
        /\ UNCHANGED <<ctxPtr, zrtpMutex, streamer, srtpVars, filterVars>>

\* zrtp_srtpSecretsReady: the SRTP pointer is set
ReadyStore ==
    \E t \in EngineThreads :
        /\ engine[t].pc = "store"
        /\ ctxPtr' = [ctxPtr EXCEPT ![SrtpField(engine[t].part)] = engine[t].srtp]
        /\ engine' = [engine EXCEPT ![t].pc = "store_ctrl"]
        /\ UNCHANGED <<heap, zrtpMutex, streamer, srtpVars, filterVars>>

\* zrtp_srtpSecretsReady: the SRTCP pointer is set
ReadyStoreCtrl ==
    \E t \in EngineThreads :
        /\ engine[t].pc = "store_ctrl"
        /\ ctxPtr' = [ctxPtr EXCEPT ![SrtcpField(engine[t].part)] = engine[t].srtcp]
        /\ engine' = [engine EXCEPT ![t].pc = "leave"]
        /\ UNCHANGED <<heap, zrtpMutex, streamer, srtpVars, filterVars>>

\* zrtp_srtpSecretsOff: zsrtp_DestroyWrapper
OffDestroy ==
    \E t \in EngineThreads :
        /\ engine[t].pc = "off"
        /\ heap' = Delete(heap, ctxPtr[SrtpField(engine[t].part)])
        /\ engine' = [engine EXCEPT ![t].pc = "off_ctrl"]
        /\ UNCHANGED <<ctxPtr, zrtpMutex, streamer, srtpVars, filterVars>>

\* zrtp_srtpSecretsOff: zsrtp_DestroyWrapperCtrl
OffDestroyCtrl ==
    \E t \in EngineThreads :
        /\ engine[t].pc = "off_ctrl"
        /\ heap' = Delete(heap, ctxPtr[SrtcpField(engine[t].part)])
        /\ engine' = [engine EXCEPT ![t].pc = "null"]
        /\ UNCHANGED <<ctxPtr, zrtpMutex, streamer, srtpVars, filterVars>>

\* zrtp_srtpSecretsOff: the SRTP pointer is set to NULL
OffNull ==
    \E t \in EngineThreads :
        /\ engine[t].pc = "null"
        /\ ctxPtr' = [ctxPtr EXCEPT ![SrtpField(engine[t].part)] = 0]
        /\ engine' = [engine EXCEPT ![t].pc = "null_ctrl"]
        /\ UNCHANGED <<heap, zrtpMutex, streamer, srtpVars, filterVars>>

\* zrtp_srtpSecretsOff: the SRTCP pointer is set to NULL
OffNullCtrl ==
    \E t \in EngineThreads :
        /\ engine[t].pc = "null_ctrl"
        /\ ctxPtr' = [ctxPtr EXCEPT ![SrtcpField(engine[t].part)] = 0]
        /\ engine' = [engine EXCEPT ![t].pc = "signal"]
        /\ UNCHANGED <<heap, zrtpMutex, streamer, srtpVars, filterVars>>

\* zrtp_srtpSecretsOff: the security-off signal
OffSignal ==
    \E t \in EngineThreads :
        /\ engine[t].pc = "signal"
        /\ engine' = [engine EXCEPT ![t].pc = "leave"]
        /\ UNCHANGED <<heap, ctxPtr, zrtpMutex, streamer, srtpVars, filterVars>>

\* the callback has returned and the engine gives the mutex back
SynchLeave ==
    \E t \in EngineThreads :
        /\ engine[t].pc = "leave"
        /\ zrtpMutex = t
        /\ zrtpMutex' = ""
        /\ engine' = [engine EXCEPT ![t] = EngineIdle]
        /\ UNCHANGED <<heap, ctxPtr, streamer, srtpVars, filterVars>>

NextConc ==
    \/ ChainEnter \/ ChainCall \/ ChainPush \/ ChainReturn
    \/ SynchEnter \/ SynchLeave
    \/ ReadyCreate \/ ReadyCreateCtrl \/ ReadyStore \/ ReadyStoreCtrl
    \/ OffDestroy \/ OffDestroyCtrl \/ OffNull \/ OffNullCtrl \/ OffSignal

SpecConc == InitConc /\ [][NextConc]_vars

\* ---------------------------------------------- properties of SpecConc

\* C6: under every interleaving of the streaming thread in a chain function
\* with a thread in zrtp_srtpSecretsOff or zrtp_srtpSecretsReady, the
\* context a chain function passes to protect or unprotect has not been
\* destroyed before the call.
C6_NoCallOnDestroyed ==
    streamer.pc = "run" => streamer.onCall # "destroyed"

\* C35: at every point at which a streaming thread can look at the filter
\* (it takes no lock, so at every point), the SRTP context pointer of a
\* direction is NULL exactly when the SRTCP context pointer of that
\* direction is NULL.
C35_SwitchTogether ==
    \A part \in {ForSender, ForReceiver} :
        (ctxPtr[SrtpField(part)] = 0) <=> (ctxPtr[SrtcpField(part)] = 0)

\* the objects a thread of the engine has created and not yet stored
InHand(t) ==
    IF engine[t].pc \in {"ready_ctrl", "store", "store_ctrl"}
    THEN {engine[t].srtp, engine[t].srtcp} \ {0}
    ELSE {}

\* the context objects that are live and that no pointer of the filter and
\* no running callback refers to
Orphans ==
    {o \in 1..MaxObjs :
        /\ heap[o] = "live"
        /\ \A f \in DOMAIN ctxPtr : ctxPtr[f] # o
        /\ \A t \in EngineThreads : o \notin InHand(t)}

\* C36: for every sequence of zrtp_srtpSecretsReady and zrtp_srtpSecretsOff
\* callbacks no context object that was created is left live without a
\* pointer to it: each can still be destroyed, and at most one SRTP and one
\* SRTCP context per direction is live.
C36_NoOrphanContext == Orphans = {}

====
